---- MODULE Spec2Model ----
(***************************************************************************)
(* A model of the groceries ETL core: the deterministic deal identity      *)
(* (groceries/utils/uuid_utils.py), the store/category get-or-create       *)
(* services, GroceryService.create, the staged-file loader                 *)
(* (scripts/processing/load_json_to_db.py) and the store consolidation     *)
(* script.                                                                 *)
(*                                                                         *)
(* Strings are sequences of one-character strings.  An Optional[T] is a    *)
(* set: None is {}, a present value v is {v}.  Prices are integers in      *)
(* cents, discounts integers in hundredths of a percent.                   *)
(***************************************************************************)
EXTENDS Integers, Sequences, FiniteSets, TLC

None == {}

Some(v) == {v}

Val(o) == CHOOSE v \in o : TRUE

(***************************************************************************)
(* Text                                                                    *)
(***************************************************************************)

\* str.lower() on one character of the alphabet used here.
LowerChar(c) ==
    IF c = "A" THEN "a" ELSE IF c = "B" THEN "b" ELSE IF c = "L" THEN "l"
    ELSE IF c = "S" THEN "s" ELSE c

\* str.lower()
Lower(s) == [i \in 1..Len(s) |-> LowerChar(s[i])]

\* str.isspace() on one character.
IsSpace(c) == c = " "

RECURSIVE LStrip(_)
LStrip(s) == IF s # <<>> /\ IsSpace(Head(s)) THEN LStrip(Tail(s)) ELSE s

RECURSIVE RStrip(_)
RStrip(s) ==
    IF s # <<>> /\ IsSpace(s[Len(s)]) THEN RStrip(SubSeq(s, 1, Len(s) - 1)) ELSE s

\* str.strip(): leading and trailing whitespace removed, inner whitespace kept.
Strip(s) == RStrip(LStrip(s))

DigitChars == <<"0", "1", "2", "3", "4", "5", "6", "7", "8", "9">>

RECURSIVE NatStr(_)
NatStr(n) ==
    IF n < 10 THEN <<DigitChars[n + 1]>>
    ELSE NatStr(n \div 10) \o <<DigitChars[(n % 10) + 1]>>

\* str(int), as the f-string formats store_id.
IntStr(n) == IF n < 0 THEN <<"-">> \o NatStr(0 - n) ELSE NatStr(n)

RECURSIVE ZeroPad(_, _)
ZeroPad(s, width) == IF Len(s) >= width THEN s ELSE ZeroPad(<<"0">> \o s, width)

\* date.__str__ = date.isoformat(): YYYY-MM-DD.
IsoFormat(d) ==
    ZeroPad(NatStr(d.y), 4) \o <<"-">> \o ZeroPad(NatStr(d.m), 2) \o <<"-">>
        \o ZeroPad(NatStr(d.d), 2)

\* Calendar order of two dates.
DateLE(a, b) ==
    \/ a.y < b.y
    \/ a.y = b.y /\ a.m < b.m
    \/ a.y = b.y /\ a.m = b.m /\ a.d <= b.d

(***************************************************************************)
(* Identity generator                                                      *)
(***************************************************************************)

GROCERY_DEAL_UUID_NAMESPACE == "6ba7b811-9dad-11d1-80b4-00c04fd430c8"

\* normalized_product = product_name.strip().lower()
NormalizeProduct(product_name) == Lower(Strip(product_name))

\* content = f"{normalized_product}:{store_id}:{valid_from}:{valid_to}"
ContentNoDelimiter(product_name, store_id, valid_from, valid_to) ==
    NormalizeProduct(product_name) \o IntStr(store_id) \o IsoFormat(valid_from)
        \o IsoFormat(valid_to)

ContentNoLower(product_name, store_id, valid_from, valid_to) ==
    Strip(product_name) \o <<":">> \o IntStr(store_id) \o <<":">>
        \o IsoFormat(valid_from) \o <<":">> \o IsoFormat(valid_to)

Content(product_name, store_id, valid_from, valid_to) ==
    NormalizeProduct(product_name) \o <<":">> \o IntStr(store_id) \o <<":">>
        \o IsoFormat(valid_from) \o <<":">> \o IsoFormat(valid_to)

\* The width of a UUID's hexadecimal form.
HexWidth == 32

RECURSIVE PadDigest(_)
PadDigest(s) == IF Len(s) >= HexWidth THEN s ELSE PadDigest(<<"#">> \o s)

\* uuid.uuid5(namespace, name): a name-based SHA-1 digest of fixed width.  The
\* digest is modelled collision-free: the name itself, left-padded to the width
\* (the namespace is the one hardcoded constant and adds nothing to tell two
\* names apart).
Uuid5(namespace, name) == PadDigest(name)

\* str(UUID): the 32 digits grouped 8-4-4-4-12.
UuidStr(hex) ==
    SubSeq(hex, 1, 8) \o <<"-">> \o SubSeq(hex, 9, 12) \o <<"-">>
        \o SubSeq(hex, 13, 16) \o <<"-">> \o SubSeq(hex, 17, 20) \o <<"-">>
        \o SubSeq(hex, 21, Len(hex))

generate_grocery_deal_uuid(product_name, store_id, valid_from, valid_to) ==
    UuidStr(Uuid5(GROCERY_DEAL_UUID_NAMESPACE,
                  Content(product_name, store_id, valid_from, valid_to)))

(***************************************************************************)
(* Staged records                                                          *)
(***************************************************************************)

IsDigit(c) == \E i \in 1..10 : DigitChars[i] = c

DigitVal(c) == (CHOOSE i \in 1..10 : DigitChars[i] = c) - 1

\* The value of a sequence of decimal digits.
RECURSIVE NatVal(_)
NatVal(s) ==
    IF s = <<>> THEN 0 ELSE 10 * NatVal(SubSeq(s, 1, Len(s) - 1)) + DigitVal(s[Len(s)])

\* Whether a string is a YYYY-MM-DD date that date.fromisoformat accepts.  The
\* day is checked against 1..31 only (no month lengths).
IsIsoDate(s) ==
    /\ Len(s) = 10
    /\ s[5] = "-"
    /\ s[8] = "-"
    /\ \A i \in {1, 2, 3, 4, 6, 7, 9, 10} : IsDigit(s[i])
    /\ NatVal(SubSeq(s, 1, 4)) >= 1
    /\ NatVal(SubSeq(s, 6, 7)) \in 1..12
    /\ NatVal(SubSeq(s, 9, 10)) \in 1..31

\* date.fromisoformat on a string it accepts (it raises ValueError otherwise).
fromisoformat(s) ==
    [y |-> NatVal(SubSeq(s, 1, 4)), m |-> NatVal(SubSeq(s, 6, 7)),
     d |-> NatVal(SubSeq(s, 9, 10))]

Jan01 == [y |-> 2025, m |-> 1, d |-> 1]
Jan07 == [y |-> 2025, m |-> 1, d |-> 7]
Jan08 == [y |-> 2025, m |-> 1, d |-> 8]

\* str(Decimal) of an amount of c hundredths, as model_dump(mode='json')
\* writes a Decimal: "5.99", "0.05", "-1.00".
DecimalStrNoPad(c) ==
    LET a == IF c < 0 THEN 0 - c ELSE c
    IN  (IF c < 0 THEN <<"-">> ELSE <<>>) \o NatStr(a \div 100) \o <<".">> \o NatStr(a % 100)

DecimalStr(c) ==
    LET a == IF c < 0 THEN 0 - c ELSE c
    IN  (IF c < 0 THEN <<"-">> ELSE <<>>) \o NatStr(a \div 100) \o <<".">>
          \o ZeroPad(NatStr(a % 100), 2)

\* The end of the run of digits that starts at s[i] (i - 1 when there is none).
RECURSIVE DigitsEnd(_, _)
DigitsEnd(s, i) == IF i <= Len(s) /\ IsDigit(s[i]) THEN DigitsEnd(s, i + 1) ELSE i - 1

\* Decimal(g) of an unsigned numeral g, in hundredths (the numerals here have
\* at most two decimal places).
DecimalCents(g) ==
    LET j == DigitsEnd(g, 1)
        frac == SubSeq(g, j + 2, Len(g))
    IN  100 * NatVal(SubSeq(g, 1, j))
          + (IF Len(frac) = 0 THEN 0
             ELSE IF Len(frac) = 1 THEN 10 * DigitVal(frac[1])
             ELSE NatVal(SubSeq(frac, 1, 2)))

\* Decimal(s) of a string with an optional sign, in hundredths.
DecimalOfStr(s) ==
    IF s # <<>> /\ Head(s) = "-" THEN 0 - DecimalCents(Tail(s)) ELSE DecimalCents(s)

\* An Optional[Decimal] in the JSON document, and read back from it
\* (load_deal_from_json, lines 48-54).
DecimalJson(o) == {DecimalStr(c) : c \in o}

DecimalField(o) == {DecimalOfStr(t) : t \in o}

\* deal.model_dump(mode='json'): every field of the deal, Decimals as strings,
\* dates as ISO strings.
model_dump(deal) ==
    [id |-> deal.id,
     uuid |-> deal.uuid,
     store_id |-> Some(deal.store_id),
     product_name |-> Some(deal.product_name),
     category_id |-> deal.category_id,
     regular_price |-> DecimalJson(deal.regular_price),
     sale_price |-> DecimalJson(deal.sale_price),
     discount_percentage |-> DecimalJson(deal.discount_percentage),
     valid_from |-> Some(IsoFormat(deal.valid_from)),
     valid_to |-> Some(IsoFormat(deal.valid_to))]

\* Truth value of an Optional[str]: None and "" are false.
TruthyStr(o) == o # None /\ o # Some(<<>>)

\* save_deal_json, lines 38-49: the document written for a deal; a deal with no
\* uuid gets the one generated from its fields (in the document, not in the
\* deal).
SaveDoc(deal) ==
    IF ~TruthyStr(deal.uuid)
    THEN [model_dump(deal) EXCEPT
            !.uuid = Some(generate_grocery_deal_uuid(deal.product_name, deal.store_id,
                                                     deal.valid_from, deal.valid_to))]
    ELSE model_dump(deal)

\* The document save_deal_json writes for a deal with these fields and no uuid.
StagedDeal(product_name, store_id, category_id, regular_price, sale_price, discount_percentage, valid_from, valid_to) ==
    SaveDoc([id |-> None, uuid |-> None, store_id |-> store_id,
             product_name |-> product_name, category_id |-> category_id,
             regular_price |-> regular_price, sale_price |-> sale_price,
             discount_percentage |-> discount_percentage,
             valid_from |-> valid_from, valid_to |-> valid_to])

\* The staged files that can be on disk, in the sorted order of their paths
\* (load_directory sorts the glob).  Files 1 and 2 lie in different buckets and
\* hold the same identity ("a" and " A" normalise alike) with different prices;
\* 4 has valid_from after valid_to; 5 has sale above regular, a negative price
\* and a discount above 100; 6 has an empty product name; 7 lacks store_id;
\* 8 has a valid_to that is no date; 9 carries no uuid; 10 has sale above
\* regular and no discount.
StagedFiles ==
    << StagedDeal(<<"a">>, 1, None, Some(599), Some(499), None, Jan01, Jan07),
       StagedDeal(<<" ", "A">>, 1, Some(1), Some(599), Some(399), Some(3339), Jan01, Jan07),
       StagedDeal(<<"a", "1">>, 2, Some(1), None, Some(499), None, Jan01, Jan07),
       StagedDeal(<<"a">>, 1, None, Some(599), Some(499), Some(1669), Jan08, Jan01),
       StagedDeal(<<"a">>, 2, None, Some(0 - 100), Some(499), Some(15000), Jan08, Jan08),
       StagedDeal(<<>>, 1, None, Some(599), Some(499), Some(1669), Jan08, Jan08),
       [StagedDeal(<<"a">>, 1, None, Some(599), Some(499), None, Jan08, Jan08)
            EXCEPT !.store_id = None],
       [StagedDeal(<<"a">>, 1, None, Some(599), Some(499), None, Jan08, Jan08)
            EXCEPT !.valid_to = Some(<<"x">>)],
       [StagedDeal(<<"A">>, 2, None, Some(599), Some(499), None, Jan08, Jan08)
            EXCEPT !.uuid = None],
       StagedDeal(<<"a">>, 2, None, Some(499), Some(599), None, Jan01, Jan07) >>

\* What lines 39-56 of load_deal_from_json raise on a staged document: "ok",
\* fromisoformat's ValueError for a date string that is no date, or the
\* ValidationError of GroceryDeal.model_validate.  The model declares types and
\* required fields (store_id, product_name, valid_from, valid_to) and no range
\* validator.
model_validate(doc) ==
    IF \E v \in doc.valid_from \cup doc.valid_to : ~IsIsoDate(v)
    THEN "ValueError"
    ELSE IF \/ doc.store_id = None
            \/ doc.product_name = None
            \/ doc.valid_from = None
            \/ doc.valid_to = None
    THEN "ValidationError"
    ELSE "ok"

\* The GroceryDeal that lines 42-56 of load_deal_from_json build from a document
\* they accept: the dates and Decimals are converted from their strings, the
\* required fields are plain values, the optional ones stay Optional.
ParsedDeal(doc) ==
    [id |-> doc.id,
     uuid |-> doc.uuid,
     store_id |-> Val(doc.store_id),
     product_name |-> Val(doc.product_name),
     category_id |-> doc.category_id,
     regular_price |-> DecimalField(doc.regular_price),
     sale_price |-> DecimalField(doc.sale_price),
     discount_percentage |-> DecimalField(doc.discount_percentage),
     valid_from |-> fromisoformat(Val(doc.valid_from)),
     valid_to |-> fromisoformat(Val(doc.valid_to))]

(***************************************************************************)
(* State                                                                   *)
(***************************************************************************)

VARIABLES
    uin,           \* identity generator: the two argument tuples under comparison
    uout,          \* identity generator: the identifiers returned for them
    refs,          \* the stores and categories tables: refs.store, refs.category
    deals,         \* the grocery_deals table, a set of rows
    nextId,        \* the next serial id of each table
    fileset,       \* the staging directory: indices into StagedFiles
    active,        \* the loader runs that take part
    runLimit,      \* how many runs each of them makes
    reachable,     \* whether the persistent store can be reached
    loader,        \* per loader run: position in load_directory and its locals
    firstRunRows,  \* history: the deal rows when the first full load run ended
    caller,        \* per get-or-create caller: position and locals
    returned,      \* history: the ids get-or-create returned, per kind and name
    calc,          \* discount calculator: the prices given and the value returned
    week,          \* default validity window: today and the window computed
    scr,           \* a scraper parsing one candidate item: position and locals
    batch,         \* scrape_deals: the deals collected and the loop that dedups them
    stage,         \* the staging directory tree, and the saves and loads made
    run,           \* an extraction run: the candidates, the deals found and staged
    ext            \* extract_unit_and_quantity: the text given and the pair returned

uuidVars == <<uin, uout>>
dbVars == <<refs, deals, nextId>>
stageVars == <<fileset, active, runLimit, reachable>>
loadVars == <<loader, firstRunRows>>
callVars == <<caller, returned>>
scrapeVars == <<calc, week, scr, batch, stage>>
toolVars == <<run, ext>>
vars == <<uin, uout, refs, deals, nextId, fileset, active, runLimit, reachable, loader,
          firstRunRows, caller, returned, calc, week, scr, batch, stage, run, ext>>

Loaders == {1, 2}
Callers == {1, 2}

\* Bounds of the model.
MaxFiles == 3
MaxRuns == 2
MaxCalls == 2

(***************************************************************************)
(* Persistent store                                                        *)
(***************************************************************************)

\* The uniqueness constraint on grocery_deals.uuid: an INSERT of a row whose
\* uuid is already in the table raises "duplicate key".
UniqueViolation(table, uuid) == \E r \in table : r.uuid = uuid

\* SELECT ... WHERE gd.id = $1
get_by_id(deal_id) == {r \in deals : r.id = Some(deal_id)}

\* SELECT ... WHERE gd.uuid = $1
get_by_uuid(uuid) == {r \in deals : r.uuid = uuid}

\* Python's round(float(x), 2) of the quotient x = n / d, in hundredths: the
\* nearest hundredth.  (A quotient exactly halfway goes to the even neighbour
\* here; in the code the double nearest to it decides, which is the same for a
\* binary fraction such as 3.125.  The prices of this model give no quotient
\* halfway that is not one.)
RoundHalfEven(n, d) ==
    LET nn == IF d < 0 THEN 0 - n ELSE n
        dd == IF d < 0 THEN 0 - d ELSE d
        q == nn \div dd
        r == nn % dd
    IN  IF 2 * r < dd THEN q
        ELSE IF 2 * r > dd THEN q + 1
        ELSE IF q % 2 = 0 THEN q ELSE q + 1

\* Truth value of an Optional[Decimal]: None and 0 are false.
Truthy(o) == o # None /\ o # Some(0)

\* GroceryService.create, lines 24-36: the uuid is generated when the deal has
\* none, the discount computed when the deal has none and both prices are set.
PreparedDeal(deal) ==
    [deal EXCEPT
        !.uuid = IF ~TruthyStr(deal.uuid)
                 THEN Some(generate_grocery_deal_uuid(deal.product_name, deal.store_id,
                                                      deal.valid_from, deal.valid_to))
                 ELSE deal.uuid,
        !.discount_percentage =
            IF /\ deal.discount_percentage = None
               /\ Truthy(deal.regular_price)
               /\ Truthy(deal.sale_price)
            THEN Some(RoundHalfEven(
                     (Val(deal.regular_price) - Val(deal.sale_price)) * 10000,
                     Val(deal.regular_price)))
            ELSE deal.discount_percentage]

(***************************************************************************)
(* The loader: load_directory and load_deal_from_json                      *)
(***************************************************************************)

RECURSIVE SortedSeq(_)
SortedSeq(S) ==
    IF S = {} THEN <<>>
    ELSE LET m == CHOOSE x \in S : \A y \in S : x <= y
         IN  <<m>> \o SortedSeq(S \ {m})

\* json_files = sorted(glob.glob(...))
JsonFiles == SortedSeq(fileset)

IdleLoader ==
    [pc |-> "idle", dry |-> FALSE, idx |-> 0, deal |-> None, deal_id |-> None,
     res |-> None, validated |-> FALSE, rejected |-> FALSE, before |-> {},
     successful |-> 0, already_exists |-> 0, failed |-> 0, runs |-> 0,
     summary |-> None, log |-> <<>>]

\* The dict load_deal_from_json returns.
Result(success, already_exists, error, deal_id, uuid) ==
    [success |-> success, already_exists |-> already_exists, error |-> error,
     deal_id |-> deal_id, uuid |-> uuid]

\* except Exception (load_deal_from_json, line 102): every exception raised
\* while the record is read, validated or created is caught.
ExceptCatchesOnlyValueError(exc) == exc = "ValueError"

ExceptCatches(exc) == exc \in {"ValueError", "ValidationError", "ConnectionError"}

\* load_deal_from_json, lines 79-100: create returned None.  When the deal has
\* a uuid and a row with it exists the load succeeded as already existing,
\* under the existing row's id; anything else is a failure.
ResultWhenNotCreatedNoFallback(deal, existing) ==
    Result(FALSE, FALSE, Some("Failed to create deal (unknown reason)"), None, deal.uuid)

ResultWhenNotCreatedOwnId(deal, existing) ==
    IF TruthyStr(deal.uuid) /\ existing # {}
    THEN Result(TRUE, TRUE, None, deal.id, deal.uuid)
    ELSE Result(FALSE, FALSE, Some("Failed to create deal (unknown reason)"), None, deal.uuid)

ResultWhenNotCreatedNoFlag(deal, existing) ==
    IF TruthyStr(deal.uuid) /\ existing # {}
    THEN Result(TRUE, FALSE, None, Val(existing).id, deal.uuid)
    ELSE Result(FALSE, FALSE, Some("Failed to create deal (unknown reason)"), None, deal.uuid)

ResultWhenNotCreated(deal, existing) ==
    IF TruthyStr(deal.uuid) /\ existing # {}
    THEN Result(TRUE, TRUE, None, Val(existing).id, deal.uuid)
    ELSE Result(FALSE, FALSE, Some("Failed to create deal (unknown reason)"), None, deal.uuid)

\* The loop of load_directory, lines 142-161: the next file is processed
\* whatever the result of this one.
LoopStopsOnFailure(res, idx, n) == idx < n /\ res.success

LoopContinues(res, idx, n) == idx < n

\* load_directory, lines 123-140: the files are listed; with none the run
\* returns at once, without a summary.
StartRun(l, dry) ==
    /\ l \in active
    /\ loader[l].pc = "idle"
    /\ loader[l].runs < runLimit
    /\ loader' =
         [loader EXCEPT ![l] =
            IF JsonFiles = <<>>
            THEN [@ EXCEPT !.runs = @ + 1, !.summary = None, !.log = <<>>,
                           !.dry = dry]
            ELSE [@ EXCEPT !.pc = "load", !.dry = dry, !.idx = 1,
                           !.successful = 0, !.already_exists = 0, !.failed = 0,
                           !.summary = None, !.log = <<>>]]
    /\ UNCHANGED <<uuidVars, dbVars, stageVars, firstRunRows, callVars, scrapeVars, toolVars>>

\* load_deal_from_json, lines 38-66: the file is read, its dates and decimals
\* converted and the document validated; a dry run returns here.
LoadRecord(l) ==
    /\ loader[l].pc = "load"
    /\ LET doc == StagedFiles[JsonFiles[loader[l].idx]]
           exc == model_validate(doc)
       IN  loader' =
             [loader EXCEPT ![l] =
                IF exc # "ok"
                THEN IF ExceptCatches(exc)
                     THEN [@ EXCEPT !.pc = "report", !.deal = None,
                                    !.validated = FALSE, !.rejected = FALSE,
                                    !.before = deals,
                                    !.res = Some(Result(FALSE, FALSE, Some(exc), None, None))]
                     ELSE [@ EXCEPT !.pc = "aborted", !.deal = None, !.res = None,
                                    !.validated = FALSE, !.rejected = FALSE,
                                    !.before = deals]
                ELSE IF loader[l].dry
                THEN [@ EXCEPT !.pc = "report", !.deal = Some(ParsedDeal(doc)),
                               !.validated = TRUE, !.rejected = FALSE,
                               !.before = deals,
                               !.res = Some(Result(TRUE, FALSE, None, None, doc.uuid))]
                ELSE [@ EXCEPT !.pc = "create", !.deal = Some(ParsedDeal(doc)),
                               !.validated = TRUE, !.rejected = FALSE,
                               !.before = deals, !.res = None]]
    /\ UNCHANGED <<uuidVars, dbVars, stageVars, firstRunRows, callVars, scrapeVars, toolVars>>

\* get_pool(): the connection pool, or the error of a store that cannot be
\* reached.
get_pool(up) == IF up THEN "ok" ELSE "ConnectionError"

\* GroceryService.create, line 19, under load_deal_from_json, lines 68 and
\* 102-110: the store cannot be reached, get_pool raises before create's own
\* try, and the loader's except turns the exception into a failed result.
CreateUnreachable(l) ==
    /\ loader[l].pc = "create"
    /\ get_pool(reachable) # "ok"
    /\ loader' =
          [loader EXCEPT ![l] =
             IF ExceptCatches(get_pool(reachable))
             THEN [@ EXCEPT !.pc = "report",
                            !.res = Some(Result(FALSE, FALSE, Some(get_pool(reachable)),
                                                None, None))]
             ELSE [@ EXCEPT !.pc = "aborted", !.res = None]]
    /\ UNCHANGED <<uuidVars, dbVars, stageVars, firstRunRows, callVars, scrapeVars, toolVars>>

\* GroceryService.create, lines 21-84: one transaction that prepares the deal
\* and inserts it.  A uuid already in the table makes the INSERT raise; create
\* then returns None and nothing is written.  Otherwise the row is committed
\* under the next id.  (The deal object is the caller's: its uuid stays set.)
CreateDeal(l) ==
    /\ loader[l].pc = "create"
    /\ get_pool(reachable) = "ok"
    /\ LET d == PreparedDeal(Val(loader[l].deal))
       IN  IF UniqueViolation(deals, d.uuid)
           THEN /\ loader' = [loader EXCEPT ![l].pc = "lookup",
                                            ![l].deal = Some(d),
                                            ![l].rejected = TRUE]
                /\ UNCHANGED <<deals, nextId>>
           ELSE /\ deals' = deals \cup {[d EXCEPT !.id = Some(nextId.deal)]}
                /\ nextId' = [nextId EXCEPT !.deal = @ + 1]
                /\ loader' = [loader EXCEPT ![l].pc = "fetch",
                                            ![l].deal = Some(d),
                                            ![l].deal_id = Some(nextId.deal)]
    /\ UNCHANGED <<uuidVars, refs, stageVars, firstRunRows, callVars, scrapeVars, toolVars>>

\* GroceryService.create, lines 86-93, and load_deal_from_json, lines 70-78:
\* after the commit the row is read back by id (the deal itself, with the id,
\* stands in when it is not found) and the load succeeded as new.
FetchCreated(l) ==
    /\ loader[l].pc = "fetch"
    /\ LET row == get_by_id(Val(loader[l].deal_id))
           created_deal == IF row # {} THEN Val(row)
                           ELSE [Val(loader[l].deal) EXCEPT !.id = loader[l].deal_id]
       IN  loader' = [loader EXCEPT
                        ![l].pc = "report",
                        ![l].res = Some(Result(TRUE, FALSE, None, created_deal.id,
                                               created_deal.uuid))]
    /\ UNCHANGED <<uuidVars, dbVars, stageVars, firstRunRows, callVars, scrapeVars, toolVars>>

\* load_deal_from_json, lines 79-100: create returned None; the existing row
\* is looked up by uuid.
LookupExisting(l) ==
    /\ loader[l].pc = "lookup"
    /\ LET deal == Val(loader[l].deal)
       IN  loader' = [loader EXCEPT
                        ![l].pc = "report",
                        ![l].res = Some(ResultWhenNotCreated(deal, get_by_uuid(deal.uuid)))]
    /\ UNCHANGED <<uuidVars, dbVars, stageVars, firstRunRows, callVars, scrapeVars, toolVars>>

\* load_directory, lines 148-161: the result of one file is counted, under
\* successful, already_exists or failed.
CountedNoExisting(lr, res) ==
    [lr EXCEPT
       !.successful = IF res.success /\ ~res.already_exists THEN @ + 1 ELSE @,
       !.failed = IF ~res.success THEN @ + 1 ELSE @,
       !.log = Append(@, res)]

Counted(lr, res) ==
    [lr EXCEPT
       !.successful = IF res.success /\ ~res.already_exists THEN @ + 1 ELSE @,
       !.already_exists = IF res.success /\ res.already_exists THEN @ + 1 ELSE @,
       !.failed = IF ~res.success THEN @ + 1 ELSE @,
       !.log = Append(@, res)]

\* load_directory, lines 148-170: the result is counted and the loop goes on to
\* the next file; after the last one the summary is printed.
ReportResult(l) ==
    /\ loader[l].pc = "report"
    /\ LET res == Val(loader[l].res)
           n == Len(JsonFiles)
           more == LoopContinues(res, loader[l].idx, n)
           counted == Counted(loader[l], res)
       IN  /\ loader' =
                [loader EXCEPT ![l] =
                   IF more
                   THEN [counted EXCEPT !.pc = "load", !.idx = @ + 1]
                   ELSE [counted EXCEPT
                           !.pc = "idle", !.runs = @ + 1,
                           !.summary = Some([successful |-> counted.successful,
                                             already_exists |-> counted.already_exists,
                                             failed |-> counted.failed,
                                             total |-> n])]]
           /\ firstRunRows' =
                IF ~more /\ ~loader[l].dry /\ firstRunRows = None
                THEN Some(deals) ELSE firstRunRows
    /\ UNCHANGED <<uuidVars, dbVars, stageVars, callVars, scrapeVars, toolVars>>

LoaderStep(l) ==
    \/ \E dry \in BOOLEAN : StartRun(l, dry)
    \/ LoadRecord(l)
    \/ CreateDeal(l)
    \/ FetchCreated(l)
    \/ LookupExisting(l)
    \/ ReportResult(l)

(***************************************************************************)
(* Store and category get-or-create                                        *)
(***************************************************************************)

IdleCaller ==
    [pc |-> "idle", kind |-> "store", name |-> <<>>, ret |-> None, calls |-> 0,
     conflicted |-> FALSE]

Kinds == {"store", "category"}

\* The names the callers ask for; the first is blank.
RefNames == {<<" ">>, <<"h">>, <<"k">>}

\* if not name or not name.strip(): return None
IsBlank(name) == name = <<>> \/ Strip(name) = <<>>

\* SELECT * FROM <table> WHERE name = $1
SelectByName(table, name) == {r \in table : r.name = name}

\* INSERT ... ON CONFLICT (name) DO UPDATE SET name = EXCLUDED.name RETURNING *,
\* under the uniqueness constraint on name: the row RETURNING gives and the
\* table afterwards.  A conflicting row is kept (its name is set to itself) and
\* returned; otherwise the new row is added under the next id.
InsertNoConflictClause(table, name, id) ==
    IF SelectByName(table, name) # {}
    THEN [row |-> None, table |-> table]
    ELSE [row |-> Some([id |-> id, name |-> name]),
          table |-> table \cup {[id |-> id, name |-> name]}]

InsertOnConflict(table, name, id) ==
    IF SelectByName(table, name) # {}
    THEN [row |-> SelectByName(table, name), table |-> table]
    ELSE [row |-> Some([id |-> id, name |-> name]),
          table |-> table \cup {[id |-> id, name |-> name]}]

\* get_or_create_store / get_or_create_category, lines 19-29: a blank name
\* returns None at once; otherwise a connection is acquired.
GetOrCreate(c, kind, name) ==
    /\ caller[c].pc = "idle"
    /\ caller[c].calls < MaxCalls
    /\ caller' = [caller EXCEPT ![c] =
                    IF IsBlank(name)
                    THEN [@ EXCEPT !.kind = kind, !.name = name, !.ret = None,
                                   !.calls = @ + 1]
                    ELSE [@ EXCEPT !.pc = "select", !.kind = kind, !.name = name,
                                   !.ret = None, !.conflicted = FALSE]]
    /\ UNCHANGED <<uuidVars, dbVars, stageVars, loadVars, returned, scrapeVars, toolVars>>

\* _get_or_create_*_with_conn, lines 38-50: the row is looked up by name and
\* returned when found.
SelectExisting(c) ==
    /\ caller[c].pc = "select"
    /\ LET row == SelectByName(refs[caller[c].kind], caller[c].name)
       IN  IF row # {}
           THEN /\ caller' = [caller EXCEPT ![c].pc = "idle", ![c].ret = Some(Val(row).id),
                                            ![c].calls = @ + 1]
                /\ returned' = returned \cup {<<caller[c].kind, caller[c].name, Val(row).id>>}
           ELSE /\ caller' = [caller EXCEPT ![c].pc = "insert"]
                /\ UNCHANGED returned
    /\ UNCHANGED <<uuidVars, dbVars, stageVars, loadVars, scrapeVars, toolVars>>

\* _get_or_create_*_with_conn, lines 52-72: the row is inserted, or on a name
\* conflict the existing one returned; no row gives None.
CreateRef(c) ==
    /\ caller[c].pc = "insert"
    /\ LET kind == caller[c].kind
           out == InsertOnConflict(refs[kind], caller[c].name, nextId[kind])
       IN  /\ refs' = [refs EXCEPT ![kind] = out.table]
           /\ nextId' = [nextId EXCEPT ![kind] = IF out.table # refs[kind] THEN @ + 1 ELSE @]
           /\ caller' = [caller EXCEPT
                           ![c].pc = "idle", ![c].calls = @ + 1,
                           ![c].conflicted = (out.table = refs[kind]),
                           ![c].ret = IF out.row = None THEN None ELSE Some(Val(out.row).id)]
           /\ returned' = IF out.row = None THEN returned
                          ELSE returned \cup {<<kind, caller[c].name, Val(out.row).id>>}
    /\ UNCHANGED <<uuidVars, deals, stageVars, loadVars, scrapeVars, toolVars>>

(***************************************************************************)
(* Store consolidation                                                     *)
(***************************************************************************)

StoreIds == {1, 2}

\* consolidate_stores, lines 15-76, one transaction: both stores must exist; a
\* dry run changes nothing; otherwise the deals of delete_store_id are moved to
\* keep_store_id and the store delete_store_id is deleted.
consolidate_stores(keep_store_id, delete_store_id, dry_run) ==
    /\ IF /\ \E s \in refs.store : s.id = keep_store_id
          /\ \E s \in refs.store : s.id = delete_store_id
          /\ ~dry_run
       THEN /\ deals' = {IF r.store_id = delete_store_id
                         THEN [r EXCEPT !.store_id = keep_store_id] ELSE r : r \in deals}
            /\ refs' = [refs EXCEPT !.store = {s \in @ : s.id # delete_store_id}]
       ELSE UNCHANGED <<deals, refs>>
    /\ UNCHANGED <<uuidVars, nextId, stageVars, loadVars, callVars, scrapeVars, toolVars>>

(***************************************************************************)
(* Identity generator calls                                                *)
(***************************************************************************)

\* The arguments the identity generator is called with.
UuidNames ==
    {<<>>, <<"a">>, <<"A">>, <<" ", "A">>, <<"a", " ">>, <<"a", " ", "a">>,
     <<"1">>, <<"a", "1">>, <<"a", ":">>}

UuidArgs ==
    [product_name : UuidNames, store_id : {1, 11}, valid_from : {Jan01, Jan08},
     valid_to : {Jan07, Jan08}]

\* One call of generate_grocery_deal_uuid, on the i-th argument tuple.
Generate(i) ==
    /\ i \in DOMAIN uin
    /\ uout[i] = None
    /\ uout' = [uout EXCEPT ![i] =
                  Some(generate_grocery_deal_uuid(uin[i].product_name, uin[i].store_id,
                                                  uin[i].valid_from, uin[i].valid_to))]
    /\ UNCHANGED <<uin, dbVars, stageVars, loadVars, callVars, scrapeVars, toolVars>>

(***************************************************************************)
(* Discount calculator                                                     *)
(***************************************************************************)

\* calculate_discount (both scrapers carry the same code): None for a price that
\* is None or zero, for a regular price not above zero and for a sale price
\* not below the regular one; otherwise the percentage round(float(...), 2).
calculate_discountNoOrderGuard(regular_price, sale_price) ==
    IF ~Truthy(regular_price) \/ ~Truthy(sale_price) \/ Val(regular_price) <= 0
    THEN None
    ELSE Some(RoundHalfEven((Val(regular_price) - Val(sale_price)) * 10000,
                            Val(regular_price)))

calculate_discount(regular_price, sale_price) ==
    IF ~Truthy(regular_price) \/ ~Truthy(sale_price) \/ Val(regular_price) <= 0
    THEN None
    ELSE IF Val(sale_price) >= Val(regular_price)
    THEN None
    ELSE Some(RoundHalfEven((Val(regular_price) - Val(sale_price)) * 10000,
                            Val(regular_price)))

\* The prices calculate_discount is called with, in cents.  The regular prices
\* are odd or at most 1, so no quotient lies halfway between two hundredths.
RegularPrices == {None} \cup {Some(p) : p \in {0 - 100, 0, 1, 499, 599, 999, 20001}}

SalePrices == {None} \cup {Some(p) : p \in {0 - 100, 0, 1, 499, 599, 20000}}

\* One call of calculate_discount.
CalculateDiscount ==
    /\ calc.pc = "call"
    /\ calc' = [calc EXCEPT !.pc = "return",
                            !.ret = calculate_discount(calc.regular_price, calc.sale_price)]
    /\ UNCHANGED <<uuidVars, dbVars, stageVars, loadVars, callVars, week, scr, batch, stage, toolVars>>

(***************************************************************************)
(* Scrapers: price parsing and price-role resolution                       *)
(***************************************************************************)

Sources == {"hmart", "stew_leonards"}

\* The end of the match of \d+\.?\d* that starts at the digit s[i].
NumeralEnd(s, i) ==
    LET j == DigitsEnd(s, i)
    IN  IF j + 1 <= Len(s) /\ s[j + 1] = "." THEN DigitsEnd(s, j + 2) ELSE j

\* re.findall(r'\$?\s*(\d+\.?\d*)', s): the numerals of s from position i on,
\* from left to right.
RECURSIVE FindNumerals(_, _)
FindNumerals(s, i) ==
    IF \A k \in i..Len(s) : ~IsDigit(s[k]) THEN <<>>
    ELSE LET b == CHOOSE k \in i..Len(s) :
                     IsDigit(s[k]) /\ \A m \in i..(k - 1) : ~IsDigit(s[m])
             e == NumeralEnd(s, b)
         IN  <<SubSeq(s, b, e)>> \o FindNumerals(s, e + 1)

\* re.findall(r'\$(\d+\.?\d*)', s): the numerals that directly follow a "$".
RECURSIVE FindDollarNumerals(_, _)
FindDollarNumerals(s, i) ==
    LET Starts == {k \in i..(Len(s) - 1) : s[k] = "$" /\ IsDigit(s[k + 1])}
    IN  IF Starts = {} THEN <<>>
        ELSE LET b == (CHOOSE k \in Starts : \A m \in Starts : k <= m) + 1
                 e == NumeralEnd(s, b)
             IN  <<SubSeq(s, b, e)>> \o FindDollarNumerals(s, e + 1)

\* '.' in match.group(1)
HasDot(g) == \E i \in 1..Len(g) : g[i] = "."

\* price_text.replace('$', '').replace(',', '').strip()
CleanPriceText(price_text) == Strip(SelectSeq(price_text, LAMBDA c : c \notin {"$", ","}))

\* parse_price: the first numeral of the cleaned text as a Decimal.  The
\* Stew Leonard's scraper divides a numeral of 100 or more that has no decimal
\* point by 100; the Hmart scraper never divides.
parse_priceNeverDivides(source, price_text) ==
    LET t == CleanPriceText(price_text)
        ns == FindNumerals(t, 1)
    IN  IF price_text = <<>> \/ ns = <<>> THEN None ELSE Some(DecimalCents(ns[1]))

parse_price(source, price_text) ==
    LET t == CleanPriceText(price_text)
        ns == FindNumerals(t, 1)
    IN  IF price_text = <<>> \/ ns = <<>> THEN None
        ELSE IF /\ source = "stew_leonards"
                /\ DecimalCents(ns[1]) >= 10000
                /\ ~HasDot(ns[1])
        THEN Some(DecimalCents(ns[1]) \div 100)
        ELSE Some(DecimalCents(ns[1]))

\* The texts of the fragments of a candidate item.
PriceTexts ==
    { <<"$", "4", ".", "9", "9">>, <<"$", "5", ".", "9", "9">>,
      <<"1", "5", "0", ".", "0", "0">>, <<"1", "2", "0">> }

\* A price element: its text, and whether its classes or its parent's text
\* hold a regular-price indicator, a sale-price indicator.
PriceElems == [text : PriceTexts, is_regular : BOOLEAN, is_sale : BOOLEAN]

\* The most price elements of one item.
MaxFrags == 2

RECURSIVE SeqsUpTo(_, _)
SeqsUpTo(S, n) ==
    IF n = 0 THEN {<<>>}
    ELSE LET shorter == SeqsUpTo(S, n - 1)
         IN  shorter \cup {Append(q, x) : q \in {r \in shorter : Len(r) = n - 1}, x \in S}

RECURSIVE JoinTexts(_)
JoinTexts(texts) ==
    IF texts = <<>> THEN <<>>
    ELSE IF Len(texts) = 1 THEN texts[1]
    ELSE texts[1] \o <<" ">> \o JoinTexts(Tail(texts))

\* item.get_text(): the text before the price fragments, the strikethrough
\* fragments, the price elements and the "was $..." phrase, white space between
\* them.
AllText(item) ==
    JoinTexts(item.extra \o item.strike
                \o [i \in 1..Len(item.price) |-> item.price[i].text]
                \o (IF item.was = None THEN <<>>
                    ELSE <<<<"w", "a", "s", " ">> \o Val(item.was)>>))

\* The candidate items: at most one strikethrough fragment, the price elements,
\* two "$" prices in the running text or none, and for Stew Leonard's a
\* "was $5.99" phrase or none.
Items ==
    [strike : {<<>>, << <<"1", "5", "0", ".", "0", "0">> >>, << <<"$", "4", ".", "9", "9">> >>},
     price : SeqsUpTo(PriceElems, MaxFrags),
     extra : {<<>>, << <<"$", "5", ".", "9", "9">>, <<"$", "4", ".", "9", "9">> >>},
     was : {None, Some(<<"$", "5", ".", "9", "9">>)}]

\* Lines 186-190 (Hmart), 609-613 (Stew Leonard's): the first valid price of a
\* strikethrough fragment is the regular price.
RECURSIVE ScanStrikethrough(_, _, _)
ScanStrikethrough(source, strikethrough_elems, regular_price) ==
    IF strikethrough_elems = <<>> THEN regular_price
    ELSE LET price_val == parse_price(source, Head(strikethrough_elems))
         IN  ScanStrikethrough(source, Tail(strikethrough_elems),
                               IF Truthy(price_val) /\ ~Truthy(regular_price)
                               THEN price_val ELSE regular_price)

\* One round of the loop over the price elements, lines 193-229 (Hmart),
\* 616-652 (Stew Leonard's); p holds regular_price and sale_price.
ClassifyNoMagnitude(source, pe, p) ==
    LET price_val == parse_price(source, pe.text)
    IN  IF ~Truthy(price_val) THEN p
        ELSE IF pe.is_regular /\ ~Truthy(p.regular_price)
        THEN [p EXCEPT !.regular_price = price_val]
        ELSE IF pe.is_sale /\ ~Truthy(p.sale_price)
        THEN [p EXCEPT !.sale_price = price_val]
        ELSE IF ~pe.is_regular /\ ~pe.is_sale
        THEN IF ~Truthy(p.sale_price)
             THEN [p EXCEPT !.sale_price = price_val]
             ELSE IF ~Truthy(p.regular_price)
             THEN [p EXCEPT !.regular_price = price_val]
             ELSE p
        ELSE p

Classify(source, pe, p) ==
    LET price_val == parse_price(source, pe.text)
    IN  IF ~Truthy(price_val) THEN p
        ELSE IF pe.is_regular /\ ~Truthy(p.regular_price)
        THEN [p EXCEPT !.regular_price = price_val]
        ELSE IF pe.is_sale /\ ~Truthy(p.sale_price)
        THEN [p EXCEPT !.sale_price = price_val]
        ELSE IF ~pe.is_regular /\ ~pe.is_sale
        THEN IF ~Truthy(p.sale_price)
             THEN [p EXCEPT !.sale_price = price_val]
             ELSE IF ~Truthy(p.regular_price)
             THEN IF Val(price_val) > Val(p.sale_price)
                  THEN [p EXCEPT !.regular_price = price_val]
                  ELSE [p EXCEPT !.regular_price = p.sale_price,
                                 !.sale_price = price_val]
             ELSE p
        ELSE p

RECURSIVE ScanPriceElems(_, _, _)
ScanPriceElems(source, price_elems, p) ==
    IF price_elems = <<>> THEN p
    ELSE ScanPriceElems(source, Tail(price_elems), Classify(source, Head(price_elems), p))

\* Lines 232-243 (Hmart), 655-666 (Stew Leonard's): with a regular price and no
\* sale price, the first numeral of the item's text below the regular price is
\* the sale price.  The numeral goes through Decimal(), not parse_price.
RECURSIVE FirstBelow(_, _)
FirstBelow(price_matches, regular_price) ==
    IF price_matches = <<>> THEN None
    ELSE IF DecimalCents(Head(price_matches)) < regular_price
    THEN Some(DecimalCents(Head(price_matches)))
    ELSE FirstBelow(Tail(price_matches), regular_price)

Rescan(source, item, p) ==
    IF Truthy(p.regular_price) /\ ~Truthy(p.sale_price)
    THEN LET found == FirstBelow(FindNumerals(AllText(item), 1), Val(p.regular_price))
         IN  IF found = None THEN p ELSE [p EXCEPT !.sale_price = found]
    ELSE p

\* Lines 246-250 (Hmart), 669-673 (Stew Leonard's): with no price at all, the
\* first price element gives the sale price.
Fallback(source, item, p) ==
    IF ~Truthy(p.sale_price) /\ ~Truthy(p.regular_price) /\ item.price # <<>>
    THEN [p EXCEPT !.sale_price = parse_price(source, item.price[1].text)]
    ELSE p

\* sorted(set(prices), reverse=True)
RECURSIVE SortedDesc(_)
SortedDesc(S) ==
    IF S = {} THEN <<>>
    ELSE LET m == CHOOSE x \in S : \A y \in S : x >= y
         IN  <<m>> \o SortedDesc(S \ {m})

\* Stew Leonard's, lines 676-697: with no price at all, the "$" prices of the
\* item's text are parsed; the highest is the regular price and the next the
\* sale price, a single one is the sale price.
LastResort(source, item, p) ==
    IF ~Truthy(p.sale_price) /\ ~Truthy(p.regular_price)
    THEN LET price_matches == FindDollarNumerals(AllText(item), 1)
             prices == {Val(parse_price(source, <<"$">> \o price_matches[i])) :
                            i \in {k \in 1..Len(price_matches) :
                                     Truthy(parse_price(source, <<"$">> \o price_matches[k]))}}
             unique_prices == SortedDesc(prices)
         IN  IF prices = {} THEN p
             ELSE IF Len(unique_prices) >= 2
             THEN [p EXCEPT !.regular_price = Some(unique_prices[1]),
                            !.sale_price = Some(unique_prices[2])]
             ELSE [p EXCEPT !.sale_price = Some(unique_prices[1])]
    ELSE p

\* Stew Leonard's, lines 700-717: with a sale price and no regular price, the
\* price of an "original price / was / compare at / list price" phrase is the
\* regular price when it is above the sale price.
OriginalPattern(source, item, p) ==
    IF Truthy(p.sale_price) /\ ~Truthy(p.regular_price) /\ item.was # None
    THEN LET parsed_price == parse_price(source, Val(item.was))
         IN  IF Truthy(parsed_price) /\ Val(parsed_price) > Val(p.sale_price)
             THEN [p EXCEPT !.regular_price = parsed_price]
             ELSE p
    ELSE p

\* Lines 287-293 (Hmart), 720-726 (Stew Leonard's): a sale price above the
\* regular price is swapped with it, an equal one clears the regular price.
FinalPassNoSwap(p) ==
    IF Truthy(p.regular_price) /\ Truthy(p.sale_price)
    THEN IF Val(p.sale_price) = Val(p.regular_price)
         THEN [p EXCEPT !.regular_price = None]
         ELSE p
    ELSE p

FinalPass(p) ==
    IF Truthy(p.regular_price) /\ Truthy(p.sale_price)
    THEN IF Val(p.sale_price) > Val(p.regular_price)
         THEN [p EXCEPT !.regular_price = p.sale_price, !.sale_price = p.regular_price]
         ELSE IF Val(p.sale_price) = Val(p.regular_price)
         THEN [p EXCEPT !.regular_price = None]
         ELSE p
    ELSE p

\* The steps of the item loop, in the order of the code; the two Stew
\* Leonard's steps are skipped by the Hmart scraper.
AfterStep(source, pc) ==
    IF pc = "strikethrough" THEN "price_elems"
    ELSE IF pc = "price_elems" THEN "rescan"
    ELSE IF pc = "rescan" THEN "fallback"
    ELSE IF pc = "fallback" THEN (IF source = "stew_leonards" THEN "last_resort" ELSE "final_pass")
    ELSE IF pc = "last_resort" THEN "original_pattern"
    ELSE IF pc = "original_pattern" THEN "final_pass"
    ELSE IF pc = "final_pass" THEN "emit"
    ELSE "done"

\* One step of the resolution of the item's prices.
ResolveStep ==
    /\ scr # None
    /\ Val(scr).pc \in {"strikethrough", "price_elems", "rescan", "fallback",
                        "last_resort", "original_pattern", "final_pass"}
    /\ LET sc == Val(scr)
           p == [regular_price |-> sc.regular_price, sale_price |-> sc.sale_price]
           q == IF sc.pc = "strikethrough"
                THEN [p EXCEPT !.regular_price =
                         ScanStrikethrough(sc.source, sc.item.strike, p.regular_price)]
                ELSE IF sc.pc = "price_elems"
                THEN ScanPriceElems(sc.source, sc.item.price, p)
                ELSE IF sc.pc = "rescan" THEN Rescan(sc.source, sc.item, p)
                ELSE IF sc.pc = "fallback" THEN Fallback(sc.source, sc.item, p)
                ELSE IF sc.pc = "last_resort" THEN LastResort(sc.source, sc.item, p)
                ELSE IF sc.pc = "original_pattern" THEN OriginalPattern(sc.source, sc.item, p)
                ELSE FinalPass(p)
       IN  scr' = Some([sc EXCEPT !.pc = AfterStep(sc.source, sc.pc),
                                  !.regular_price = q.regular_price,
                                  !.sale_price = q.sale_price])
    /\ UNCHANGED <<uuidVars, dbVars, stageVars, loadVars, callVars, calc, week, batch, stage, toolVars>>

\* Lines 296-314 (Hmart), 831-853 (Stew Leonard's): the discount is calculated,
\* and with a sale price the deal is appended to the deals.
EmitDeal ==
    /\ scr # None
    /\ Val(scr).pc = "emit"
    /\ LET sc == Val(scr)
           discount_percentage == calculate_discount(sc.regular_price, sc.sale_price)
       IN  scr' = Some([sc EXCEPT
                          !.pc = "done",
                          !.deal = IF Truthy(sc.sale_price)
                                   THEN Some([regular_price |-> sc.regular_price,
                                              sale_price |-> sc.sale_price,
                                              discount_percentage |-> discount_percentage])
                                   ELSE None])
    /\ UNCHANGED <<uuidVars, dbVars, stageVars, loadVars, callVars, calc, week, batch, stage, toolVars>>

(***************************************************************************)
(* Scrapers: default validity window and per-batch deduplication           *)
(***************************************************************************)

\* date.weekday() of the day with proleptic ordinal n (date.toordinal()):
\* Monday is 0, Sunday is 6.
weekday(n) == (n + 6) % 7

\* The values of date.today(): 2025-01-01 (ordinal 739252) and the 59 days
\* after it.
Days == 739252..739311

\* Lines 154-158 (Hmart), 442-446 (Stew Leonard's): the window of the weekly
\* deals.
ComputeWindow ==
    /\ week # None
    /\ Val(week).pc = "start"
    /\ LET today == Val(week).today
           days_since_sunday == weekday(today) + 1
           valid_from == today - days_since_sunday
           valid_to == valid_from + 6
       IN  week' = Some([pc |-> "done", today |-> today, valid_from |-> valid_from,
                         valid_to |-> valid_to])
    /\ UNCHANGED <<uuidVars, dbVars, stageVars, loadVars, callVars, calc, scr, batch, stage, toolVars>>

\* The most deals of one batch.
MaxDeals == 3

\* The deals a scraper collected from its pages: product names as
\* get_text(strip=True) gives them, the scraper's own store, a sale price.
CollectedDeals == [product_name : {<<"a">>, <<"A">>, <<"b">>}, store_id : {1},
                   sale_price : {499, 599}]

\* key = (deal.product_name.lower().strip(), deal.store_id)
DedupKeyNoLower(deal) == <<Strip(deal.product_name), deal.store_id>>

DedupKey(deal) == <<Strip(Lower(deal.product_name)), deal.store_id>>

\* scrape_deals, lines 515-519 (Hmart), 884-888 (Stew Leonard's): one round of
\* the loop that keeps a deal whose key was not seen.
DedupStep ==
    /\ batch # None
    /\ Val(batch).pc = "loop"
    /\ Val(batch).i <= Len(Val(batch).all_deals)
    /\ LET b == Val(batch)
           deal == b.all_deals[b.i]
           key == DedupKey(deal)
       IN  batch' = Some(IF key \notin b.seen
                         THEN [b EXCEPT !.i = @ + 1, !.seen = @ \cup {key},
                                        !.unique_deals = Append(@, deal)]
                         ELSE [b EXCEPT !.i = @ + 1])
    /\ UNCHANGED <<uuidVars, dbVars, stageVars, loadVars, callVars, calc, week, scr, stage, toolVars>>

\* scrape_deals, line 521 (Hmart), 890 (Stew Leonard's): return unique_deals.
DedupReturn ==
    /\ batch # None
    /\ Val(batch).pc = "loop"
    /\ Val(batch).i > Len(Val(batch).all_deals)
    /\ batch' = Some([Val(batch) EXCEPT !.pc = "done"])
    /\ UNCHANGED <<uuidVars, dbVars, stageVars, loadVars, callVars, calc, week, scr, stage, toolVars>>

(***************************************************************************)
(* Staging store: save_deal_json and reading a staged file back            *)
(***************************************************************************)

\* At most MaxSaves calls of save_deal_json in one behaviour.
MaxSaves == 2

\* The subdirectory argument of save_deal_json: none, or a scraper's output_dir.
Subdirectories == {None, Some("hmart")}

\* save_deal_json, lines 31-34: the directory the file goes to.
OutputDir(subdirectory) ==
    IF subdirectory = None \/ subdirectory = Some("")
    THEN <<"data", "stage">>
    ELSE <<"data", "stage", Val(subdirectory)>>

\* save_deal_json, lines 51-53: the file is named by the uuid of the document.
OutputPathByName(deal_dict, subdirectory) ==
    [dir |-> OutputDir(subdirectory),
     name |-> Val(deal_dict.product_name) \o <<".", "j", "s", "o", "n">>]

OutputPath(deal_dict, subdirectory) ==
    [dir |-> OutputDir(subdirectory),
     name |-> Val(deal_dict.uuid) \o <<".", "j", "s", "o", "n">>]

\* A GroceryDeal as a scraper or a caller builds it.
NewDeal(product_name, store_id, opt, with_uuid) ==
    [id |-> None,
     uuid |-> IF with_uuid
              THEN Some(generate_grocery_deal_uuid(product_name, store_id, Jan01, Jan07))
              ELSE None,
     store_id |-> store_id,
     product_name |-> product_name,
     category_id |-> opt.category_id,
     regular_price |-> opt.regular_price,
     sale_price |-> opt.sale_price,
     discount_percentage |-> opt.discount_percentage,
     valid_from |-> Jan01,
     valid_to |-> Jan07]

\* No optional field, and every optional field.
BareFields ==
    [category_id |-> None, regular_price |-> None, sale_price |-> None,
     discount_percentage |-> None]

FullFields ==
    [category_id |-> Some(1), regular_price |-> Some(599), sale_price |-> Some(499),
     discount_percentage |-> Some(1669)]

\* Every combination of the optional fields; 0.05 and 16.60 have a zero in
\* their decimal places.
OptionalFields ==
    [category_id : {None, Some(1)}, regular_price : {None, Some(599)},
     sale_price : {None, Some(5)}, discount_percentage : {None, Some(1660)}]

\* The deals saved into the store: "a" and "A" of one store share an identity.
StoreDeals ==
    {NewDeal(n, 1, o, u) : n \in {<<"a">>, <<"A">>, <<"b">>}, o \in {BareFields, FullFields},
                           u \in BOOLEAN}

\* The deals saved and read back.
RoundTripDeals == {NewDeal(<<"a">>, 1, o, u) : o \in OptionalFields, u \in BOOLEAN}

\* The staging tree after save_deal_json(deal, subdirectory): the document is
\* written at its path, over whatever the path held ('w').
Written(st, deal, subdirectory) ==
    LET deal_dict == SaveDoc(deal)
        output_path == OutputPath(deal_dict, subdirectory)
    IN  [st EXCEPT
           !.files = [q \in DOMAIN st.files \cup {output_path} |->
                         IF q = output_path THEN deal_dict ELSE st.files[q]],
           !.n = st.n + 1,
           !.saved = Some([deal |-> deal, subdirectory |-> subdirectory,
                           path |-> output_path,
                           prev |-> IF output_path \in DOMAIN st.files
                                    THEN Some(st.files[output_path]) ELSE None]),
           !.loaded = None]

\* save_deal_json(deal, subdirectory), called on its own.
SaveDealJson(deal, subdirectory) ==
    /\ stage # None
    /\ Val(stage).n < MaxSaves
    /\ stage' = Some(Written(Val(stage), deal, subdirectory))
    /\ UNCHANGED <<uuidVars, dbVars, stageVars, loadVars, callVars, calc, week, scr, batch, toolVars>>

\* load_deal_json(path) and lines 42-56 of load_deal_from_json: the file's
\* document, converted and validated into a GroceryDeal.
LoadDealJson(json_file_path) ==
    /\ stage # None
    /\ json_file_path \in DOMAIN Val(stage).files
    /\ model_validate(Val(stage).files[json_file_path]) = "ok"
    /\ stage' = Some([Val(stage) EXCEPT
          !.loaded = Some([path |-> json_file_path,
                           deal |-> ParsedDeal(Val(stage).files[json_file_path])])])
    /\ UNCHANGED <<uuidVars, dbVars, stageVars, loadVars, callVars, calc, week, scr, batch, toolVars>>

\* update_json_file(file_path, old_store_id, new_store_id, dry_run),
\* update_store_ids.py 24-48: a file whose store_id is old_store_id is written
\* back with new_store_id, every other key as it was, under the same name; a
\* dry run and a file of another store change nothing.
UpdateJsonFile(file_path, old_store_id, new_store_id, dry_run) ==
    /\ stage # None
    /\ file_path \in DOMAIN Val(stage).files
    /\ LET st == Val(stage)
           data == st.files[file_path]
       IN  stage' =
             IF data.store_id # Some(old_store_id) \/ dry_run THEN stage
             ELSE Some([st EXCEPT !.files[file_path] =
                                     [data EXCEPT !.store_id = Some(new_store_id)]])
    /\ UNCHANGED <<uuidVars, dbVars, stageVars, loadVars, callVars, calc, week, scr, batch, toolVars>>

(***************************************************************************)
(* Extraction run: the loop over the candidates, deduplication, staging    *)
(***************************************************************************)

\* The prices the item loop resolves for one candidate, all steps in order.
ResolvePrices(source, item) ==
    LET p0 == [regular_price |-> None, sale_price |-> None]
        p1 == [p0 EXCEPT !.regular_price = ScanStrikethrough(source, item.strike, None)]
        p2 == ScanPriceElems(source, item.price, p1)
        p3 == Rescan(source, item, p2)
        p4 == Fallback(source, item, p3)
        p5 == IF source = "stew_leonards"
              THEN OriginalPattern(source, item, LastResort(source, item, p4))
              ELSE p4
    IN  FinalPass(p5)

\* The most candidates on one page.
MaxItems == 3

NoPriceItem == [strike |-> <<>>, price |-> <<>>, extra |-> <<>>, was |-> None]

SalePriceItem(text) ==
    [NoPriceItem EXCEPT !.price = <<[text |-> text, is_regular |-> FALSE, is_sale |-> TRUE]>>]

RegularOnlyItem == [NoPriceItem EXCEPT !.strike = << <<"1", "5", "0", ".", "0", "0">> >>]

\* A candidate of the page: the product name its elements resolve to (none when
\* no name element or no valid text is found), whether parsing it raises (the
\* category lookup fails, a regular expression meets None), and its prices.
Candidates ==
    { [name |-> None, raises |-> FALSE, item |-> SalePriceItem(<<"$", "4", ".", "9", "9">>)],
      [name |-> Some(<<"a">>), raises |-> TRUE, item |-> SalePriceItem(<<"$", "4", ".", "9", "9">>)],
      [name |-> Some(<<"a">>), raises |-> FALSE, item |-> NoPriceItem],
      [name |-> Some(<<"a">>), raises |-> FALSE, item |-> RegularOnlyItem],
      [name |-> Some(<<"a">>), raises |-> FALSE, item |-> SalePriceItem(<<"$", "4", ".", "9", "9">>)],
      [name |-> Some(<<"A">>), raises |-> FALSE, item |-> SalePriceItem(<<"$", "5", ".", "9", "9">>)],
      [name |-> Some(<<"b">>), raises |-> FALSE, item |-> SalePriceItem(<<"$", "4", ".", "9", "9">>)] }

\* self.store.id and the output_dir of the two scrapers.
StoreIdOf(source) == IF source = "hmart" THEN 1 ELSE 2

\* How a run is started: run() (the scraper's main without --url, scrape_store),
\* or the Stew Leonard's main and the scrape command with an explicit URL.
Entries == {"run", "url"}

\* One round of the loop over product_items, lines 160-318 (Hmart), 449-857
\* (Stew Leonard's): no name, an exception or no sale price leave the deals as
\* they are; otherwise the deal is appended.  r is the run, c the candidate.
AfterItemAbort(r, c) ==
    LET p == ResolvePrices(r.source, c.item)
    IN  IF c.name = None THEN [r EXCEPT !.idx = @ + 1]
        ELSE IF c.raises THEN [r EXCEPT !.idx = Len(r.product_items) + 1]
        ELSE IF ~Truthy(p.sale_price) THEN [r EXCEPT !.idx = @ + 1]
        ELSE [r EXCEPT !.idx = @ + 1,
                       !.origin = Append(@, r.idx),
                       !.deals = Append(@,
                          [id |-> None, uuid |-> None, store_id |-> StoreIdOf(r.source),
                           product_name |-> Val(c.name), category_id |-> None,
                           regular_price |-> p.regular_price, sale_price |-> p.sale_price,
                           discount_percentage |->
                               calculate_discount(p.regular_price, p.sale_price),
                           valid_from |-> Jan01, valid_to |-> Jan07])]

AfterItem(r, c) ==
    LET p == ResolvePrices(r.source, c.item)
    IN  IF c.name = None THEN [r EXCEPT !.idx = @ + 1]
        ELSE IF c.raises THEN [r EXCEPT !.idx = @ + 1]
        ELSE IF ~Truthy(p.sale_price) THEN [r EXCEPT !.idx = @ + 1]
        ELSE [r EXCEPT !.idx = @ + 1,
                       !.origin = Append(@, r.idx),
                       !.deals = Append(@,
                          [id |-> None, uuid |-> None, store_id |-> StoreIdOf(r.source),
                           product_name |-> Val(c.name), category_id |-> None,
                           regular_price |-> p.regular_price, sale_price |-> p.sale_price,
                           discount_percentage |->
                               calculate_discount(p.regular_price, p.sale_price),
                           valid_from |-> Jan01, valid_to |-> Jan07])]

\* The item loop handles its next candidate.
ParseItem ==
    /\ run # None
    /\ Val(run).pc = "scrape"
    /\ Val(run).idx <= Len(Val(run).product_items)
    /\ run' = Some(AfterItem(Val(run), Val(run).product_items[Val(run).idx]))
    /\ UNCHANGED <<uuidVars, dbVars, stageVars, loadVars, callVars, scrapeVars, ext>>

\* scrape_deals, lines 513-521 (Hmart), 882-890 (Stew Leonard's): the first
\* deal of each key, in order.
RECURSIVE Deduplicated(_, _)
Deduplicated(all_deals, seen) ==
    IF all_deals = <<>> THEN <<>>
    ELSE IF DedupKey(Head(all_deals)) \in seen THEN Deduplicated(Tail(all_deals), seen)
    ELSE <<Head(all_deals)>>
           \o Deduplicated(Tail(all_deals), seen \cup {DedupKey(Head(all_deals))})

\* The item loop is over.  Under run(), scrape_deals removes the duplicates and
\* run() stops when no deal is left (base_scraper.py 100-104); with an explicit
\* URL the list of scrape_weekly_specials goes to save_deals_to_json as it is
\* (scrape_stew_leonards.py 927-932, commands.py 304-309).
ScrapeReturn ==
    /\ run # None
    /\ Val(run).pc = "scrape"
    /\ Val(run).idx > Len(Val(run).product_items)
    /\ LET r == Val(run)
           found == IF r.entry = "run" THEN Deduplicated(r.deals, {}) ELSE r.deals
       IN  run' = Some([r EXCEPT !.to_save = found,
                                 !.pc = IF r.entry = "run" /\ found = <<>>
                                        THEN "done" ELSE "save"])
    /\ UNCHANGED <<uuidVars, dbVars, stageVars, loadVars, callVars, scrapeVars, ext>>

\* save_deals_to_json, lines 76-85: the next deal is written to the staging
\* tree.
SaveNextDeal ==
    /\ run # None
    /\ stage # None
    /\ Val(run).pc = "save"
    /\ Len(Val(run).saved_paths) < Len(Val(run).to_save)
    /\ LET r == Val(run)
           deal == r.to_save[Len(r.saved_paths) + 1]
           st == Written(Val(stage), deal, Some(r.source))
       IN  /\ stage' = Some(st)
           /\ run' = Some([r EXCEPT !.saved_paths = Append(@, Val(st.saved).path)])
    /\ UNCHANGED <<uuidVars, dbVars, stageVars, loadVars, callVars, calc, week, scr, batch, ext>>

\* save_deals_to_json returns the paths.
SaveReturn ==
    /\ run # None
    /\ Val(run).pc = "save"
    /\ Len(Val(run).saved_paths) = Len(Val(run).to_save)
    /\ run' = Some([Val(run) EXCEPT !.pc = "done"])
    /\ UNCHANGED <<uuidVars, dbVars, stageVars, loadVars, callVars, scrapeVars, ext>>

(***************************************************************************)
(* Scrapers: unit and quantity                                             *)
(***************************************************************************)

\* units, in the order of the list (scrape_hmart.py 99, scrape_stew_leonards.py
\* 147).
HmartUnits ==
    << <<"l", "b">>, <<"l", "b", "s">>, <<"o", "z">>, <<"o", "z", ".">>, <<"g">>,
       <<"k", "g">>, <<"e", "a", "c", "h">>, <<"p", "a", "c", "k">>, <<"c", "t">>,
       <<"c", "o", "u", "n", "t">>, <<"p", "c", "s">> >>

Units(source) ==
    IF source = "hmart" THEN HmartUnits
    ELSE HmartUnits \o << <<"p", "k">>, <<"p", "k", "g">> >>

\* \w on one character of the lowercased text.
IsWordChar(c) ==
    IsDigit(c) \/ c \in {"a", "b", "c", "e", "g", "h", "i", "k", "l", "m", "n", "o", "p",
                         "r", "s", "t", "u", "z", "_"}

\* \s*: the first position from i on that holds no white space.
RECURSIVE SkipSpaces(_, _)
SkipSpaces(s, i) == IF i <= Len(s) /\ IsSpace(s[i]) THEN SkipSpaces(s, i + 1) ELSE i

\* \b after s[k]: exactly one of s[k] and s[k + 1] is a word character (the end
\* of the text counts as none).
WordBoundaryAfter(s, k) == IsWordChar(s[k]) # (k + 1 <= Len(s) /\ IsWordChar(s[k + 1]))

\* The match of (\d+\.?\d*)\s*<u>\b that starts at text[i]: its group 1, or
\* none.
PatternAtNoBoundary(text, u, i) ==
    IF ~IsDigit(text[i]) THEN None
    ELSE LET j == NumeralEnd(text, i)
             k == SkipSpaces(text, j + 1)
         IN  IF k + Len(u) - 1 <= Len(text) /\ SubSeq(text, k, k + Len(u) - 1) = u
             THEN Some(SubSeq(text, i, j))
             ELSE None

PatternAt(text, u, i) ==
    IF ~IsDigit(text[i]) THEN None
    ELSE LET j == NumeralEnd(text, i)
             k == SkipSpaces(text, j + 1)
         IN  IF /\ k + Len(u) - 1 <= Len(text)
                /\ SubSeq(text, k, k + Len(u) - 1) = u
                /\ WordBoundaryAfter(text, k + Len(u) - 1)
             THEN Some(SubSeq(text, i, j))
             ELSE None

\* re.search(pattern, text): group 1 of the leftmost match, or none.
RECURSIVE SearchUnit(_, _, _)
SearchUnit(text, u, i) ==
    IF i > Len(text) THEN None
    ELSE IF PatternAt(text, u, i) # None THEN PatternAt(text, u, i)
    ELSE SearchUnit(text, u, i + 1)

\* u.rstrip('.')
RECURSIVE RStripDot(_)
RStripDot(u) ==
    IF u # <<>> /\ u[Len(u)] = "." THEN RStripDot(SubSeq(u, 1, Len(u) - 1)) ELSE u

\* The loop over the units from entry n on: the first entry whose pattern is
\* found gives unit and quantity.
RECURSIVE FirstUnit(_, _, _)
FirstUnit(text, units, n) ==
    IF n > Len(units) THEN [unit |-> None, quantity |-> None]
    ELSE LET match == SearchUnit(text, units[n], 1)
         IN  IF match # None
             THEN [unit |-> Some(RStripDot(units[n])),
                   quantity |-> Some(DecimalCents(Val(match)))]
             ELSE FirstUnit(text, units, n + 1)

\* extract_unit_and_quantity(product_name, description)
extract_unit_and_quantity(source, product_name, description) ==
    FirstUnit(Lower(product_name \o <<" ">> \o description), Units(source), 1)

\* The product names and descriptions given.
UnitNames ==
    { <<"m", "i", "l", "k">>,
      <<"6", " ", "p", "a", "c", "k", " ", "1", "2", " ", "o", "z">>,
      <<"2", " ", "L", "B", "S">>,
      <<"1", "2", "o", "z", ".">>,
      <<"5", " ", "g", "r", "e", "e", "n">>,
      <<"a", " ", "2", " ", "3", " ", "l", "b">>,
      <<"1", ".", "5", " ", "l", "b">>,
      <<"3", " ", "c", "t">>,
      <<"2", " ", "p", "k">>,
      <<"0", " ", "g">> }

UnitDescriptions ==
    { <<>>,
      <<"1", "2", " ", "o", "z">>,
      <<"1", "k", "g">>,
      <<"b", "i", "g">>,
      <<"4", " ", "c", "o", "u", "n", "t">> }

\* extract_unit_and_quantity is called and returns.
ExtractUnit ==
    /\ ext # None
    /\ Val(ext).pc = "call"
    /\ LET e == Val(ext)
           out == extract_unit_and_quantity(e.source, e.product_name, e.description)
       IN  ext' = Some([e EXCEPT !.pc = "return", !.unit = out.unit,
                                 !.quantity = out.quantity])
    /\ UNCHANGED <<uuidVars, dbVars, stageVars, loadVars, callVars, scrapeVars, run>>

(***************************************************************************)
(* Specifications                                                          *)
(***************************************************************************)

\* The store after the scrapers initialised: two stores, one category, no deal.
InitStore ==
    /\ refs = [store |-> {[id |-> 1, name |-> <<"h">>], [id |-> 2, name |-> <<"s">>]},
               category |-> {[id |-> 1, name |-> <<"p">>]}]
    /\ deals = {}
    /\ nextId = [store |-> 3, category |-> 2, deal |-> 1]

NoUuidCalls == uin = <<>> /\ uout = <<>>

NoLoaders == loader = [l \in Loaders |-> IdleLoader] /\ firstRunRows = None

NoCallers == caller = [c \in Callers |-> IdleCaller] /\ returned = {}

NoCalc == calc = [pc |-> "idle", regular_price |-> None, sale_price |-> None, ret |-> None]

NoWeek == week = None

NoScraper == scr = None

NoBatch == batch = None

NoStage == stage = None

NoRun == run = None

NoExt == ext = None

NoTools == NoRun /\ NoExt

NoScrape == NoCalc /\ NoWeek /\ NoScraper /\ NoBatch /\ NoStage /\ NoTools

StagingDirs == {S \in SUBSET (1..Len(StagedFiles)) : Cardinality(S) <= MaxFiles}

\* One loader, run after run over a fixed staging directory, against a store
\* that holds no deal.
Init ==
    /\ NoUuidCalls /\ NoLoaders /\ NoCallers /\ NoScrape /\ InitStore
    /\ fileset \in StagingDirs
    /\ active = {1}
    /\ runLimit = MaxRuns
    /\ reachable = TRUE

Next == \E l \in Loaders : LoaderStep(l)

Spec == Init /\ [][Next]_vars

\* The steps of a run that has started.
RecordStep(l) ==
    LoadRecord(l) \/ CreateDeal(l) \/ FetchCreated(l) \/ LookupExisting(l) \/ ReportResult(l)

\* One loader over a staging directory; the store is reachable for the whole
\* behaviour, or unreachable for the whole behaviour.
InitOutage ==
    /\ NoUuidCalls /\ NoLoaders /\ NoCallers /\ NoScrape /\ InitStore
    /\ fileset \in StagingDirs
    /\ active = {1}
    /\ runLimit = 1
    /\ reachable \in BOOLEAN

NextOutage == \E l \in Loaders : LoaderStep(l) \/ CreateUnreachable(l)

SpecOutage == InitOutage /\ [][NextOutage]_vars

\* Two loader runs at once, one run each, over the same staging directory.
InitRace ==
    /\ NoUuidCalls /\ NoLoaders /\ NoCallers /\ NoScrape /\ InitStore
    /\ fileset \in StagingDirs
    /\ active = Loaders
    /\ runLimit = 1
    /\ reachable = TRUE

SpecRace == InitRace /\ [][Next]_vars

\* One loader run, with store consolidations before, between and after its
\* steps.
InitRefs ==
    /\ NoUuidCalls /\ NoLoaders /\ NoCallers /\ NoScrape /\ InitStore
    /\ fileset \in StagingDirs
    /\ active = {1}
    /\ runLimit = 1
    /\ reachable = TRUE

NextRefs ==
    \/ \E l \in Loaders : LoaderStep(l)
    \/ \E keep \in StoreIds, delete \in StoreIds, dry_run \in BOOLEAN :
          consolidate_stores(keep, delete, dry_run)

SpecRefs == InitRefs /\ [][NextRefs]_vars

\* Concurrent get-or-create calls against empty stores and categories tables.
InitGetOrCreate ==
    /\ NoUuidCalls /\ NoLoaders /\ NoCallers /\ NoScrape
    /\ refs = [store |-> {}, category |-> {}]
    /\ deals = {}
    /\ nextId = [store |-> 1, category |-> 1, deal |-> 1]
    /\ fileset = {}
    /\ active = {}
    /\ runLimit = 0
    /\ reachable = TRUE

NextGetOrCreate ==
    \E c \in Callers :
        \/ \E kind \in Kinds, name \in RefNames : GetOrCreate(c, kind, name)
        \/ SelectExisting(c)
        \/ CreateRef(c)

SpecGetOrCreate == InitGetOrCreate /\ [][NextGetOrCreate]_vars

\* The identity generator applied to two argument tuples.
InitUuid ==
    /\ uin \in [{1, 2} -> UuidArgs]
    /\ uout = [i \in {1, 2} |-> None]
    /\ NoLoaders /\ NoCallers /\ NoScrape /\ InitStore
    /\ fileset = {}
    /\ active = {}
    /\ runLimit = 0
    /\ reachable = TRUE

NextUuid == \E i \in {1, 2} : Generate(i)

SpecUuid == InitUuid /\ [][NextUuid]_vars

\* Nothing but the database as the scrapers' initialisation left it.
Quiet ==
    /\ NoUuidCalls /\ NoLoaders /\ NoCallers /\ InitStore
    /\ fileset = {}
    /\ active = {}
    /\ runLimit = 0
    /\ reachable = TRUE

\* calculate_discount applied to one pair of prices.
InitDiscount ==
    /\ Quiet /\ NoTools /\ NoWeek /\ NoScraper /\ NoBatch /\ NoStage
    /\ calc \in [pc : {"call"}, regular_price : RegularPrices, sale_price : SalePrices,
                 ret : {None}]

NextDiscount == CalculateDiscount

SpecDiscount == InitDiscount /\ [][NextDiscount]_vars

\* A scraper at the top of its loop over the candidate items, with one item.
InitResolve ==
    /\ Quiet /\ NoTools /\ NoCalc /\ NoWeek /\ NoBatch /\ NoStage
    /\ \E source \in Sources, item \in Items :
          /\ source = "hmart" => item.was = None
          /\ scr = Some([pc |-> "strikethrough", source |-> source, item |-> item,
                         regular_price |-> None, sale_price |-> None, deal |-> None])

NextResolve == ResolveStep \/ EmitDeal

SpecResolve == InitResolve /\ [][NextResolve]_vars

\* The candidate items of the rescan: at most one price element, and a text
\* that may start with the numeral 0.
RescanItems ==
    [strike : {<<>>, << <<"1", "5", "0", ".", "0", "0">> >>, << <<"$", "4", ".", "9", "9">> >>},
     price : {<<>>} \cup {<<pe>> : pe \in PriceElems},
     extra : {<<>>, << <<"$", "5", ".", "9", "9">>, <<"$", "4", ".", "9", "9">> >>,
              << <<"0">>, <<"$", "4", ".", "9", "9">> >>},
     was : {None, Some(<<"$", "5", ".", "9", "9">>)}]

InitRescan ==
    /\ Quiet /\ NoTools /\ NoCalc /\ NoWeek /\ NoBatch /\ NoStage
    /\ \E source \in Sources, item \in RescanItems :
          /\ source = "hmart" => item.was = None
          /\ scr = Some([pc |-> "strikethrough", source |-> source, item |-> item,
                         regular_price |-> None, sale_price |-> None, deal |-> None])

SpecRescan == InitRescan /\ [][NextResolve]_vars

\* The default window computed on one day.
InitWindow ==
    /\ Quiet /\ NoTools /\ NoCalc /\ NoScraper /\ NoBatch /\ NoStage
    /\ \E today \in Days :
          week = Some([pc |-> "start", today |-> today, valid_from |-> today,
                       valid_to |-> today])

NextWindow == ComputeWindow

SpecWindow == InitWindow /\ [][NextWindow]_vars

\* scrape_deals at the top of its deduplication loop.
InitDedup ==
    /\ Quiet /\ NoTools /\ NoCalc /\ NoWeek /\ NoScraper /\ NoStage
    /\ \E all_deals \in SeqsUpTo(CollectedDeals, MaxDeals) :
          batch = Some([pc |-> "loop", all_deals |-> all_deals, i |-> 1, seen |-> {},
                        unique_deals |-> <<>>])

NextDedup == DedupStep \/ DedupReturn

SpecDedup == InitDedup /\ [][NextDedup]_vars

\* An empty staging tree.
InitStage ==
    /\ Quiet /\ NoTools /\ NoCalc /\ NoWeek /\ NoScraper /\ NoBatch
    /\ stage = Some([files |-> <<>>, n |-> 0, saved |-> None, loaded |-> None])

NextStage ==
    \/ \E deal \in StoreDeals, subdirectory \in Subdirectories : SaveDealJson(deal, subdirectory)
    \/ \E json_file_path \in DOMAIN Val(stage).files : LoadDealJson(json_file_path)

SpecStage == InitStage /\ [][NextStage]_vars

NextRoundTrip ==
    \/ \E deal \in RoundTripDeals : SaveDealJson(deal, Some("hmart"))
    \/ \E json_file_path \in DOMAIN Val(stage).files : LoadDealJson(json_file_path)

SpecRoundTrip == InitStage /\ [][NextRoundTrip]_vars

\* Saves into the staging tree and store-id updates of its files.
NextUpdate ==
    \/ \E deal \in StoreDeals, subdirectory \in Subdirectories : SaveDealJson(deal, subdirectory)
    \/ \E file_path \in DOMAIN Val(stage).files, old_store_id \in StoreIds,
          new_store_id \in StoreIds, dry_run \in BOOLEAN :
          UpdateJsonFile(file_path, old_store_id, new_store_id, dry_run)

SpecUpdate == InitStage /\ [][NextUpdate]_vars

\* An extraction run at the top of its item loop, the staging tree empty.  Only
\* the Stew Leonard's scraper takes an explicit URL.
InitRun ==
    /\ Quiet /\ NoCalc /\ NoWeek /\ NoScraper /\ NoBatch /\ NoExt
    /\ stage = Some([files |-> <<>>, n |-> 0, saved |-> None, loaded |-> None])
    /\ \E source \in Sources, entry \in Entries,
          product_items \in SeqsUpTo(Candidates, MaxItems) :
          /\ entry = "url" => source = "stew_leonards"
          /\ run = Some([entry |-> entry, source |-> source, pc |-> "scrape",
                         product_items |-> product_items, idx |-> 1, deals |-> <<>>,
                         origin |-> <<>>, to_save |-> <<>>, saved_paths |-> <<>>])

NextRun == ParseItem \/ ScrapeReturn \/ SaveNextDeal \/ SaveReturn

SpecRun == InitRun /\ [][NextRun]_vars

\* extract_unit_and_quantity called with one name and one description.
InitUnit ==
    /\ Quiet /\ NoCalc /\ NoWeek /\ NoScraper /\ NoBatch /\ NoStage /\ NoRun
    /\ \E source \in Sources, product_name \in UnitNames, description \in UnitDescriptions :
          ext = Some([pc |-> "call", source |-> source, product_name |-> product_name,
                      description |-> description, unit |-> None, quantity |-> None])

NextUnit == ExtractUnit

SpecUnit == InitUnit /\ [][NextUnit]_vars

(***************************************************************************)
(* Properties of the loader                                                *)
(***************************************************************************)

\* The staged document a loader is processing.
DocAt(l) == StagedFiles[JsonFiles[loader[l].idx]]

\* C1: loading a staged record into a store that holds no row of its identity
\* reports success as new, loading it again reports success as already
\* existing (never failed), one row of that identity is persisted, and once a
\* full load run has ended every replay leaves the row set as that run left it.
C1_IdempotentLoad ==
    /\ \A l \in Loaders :
         (loader[l].pc = "report" /\ ~loader[l].dry /\ loader[l].validated) =>
            LET res == Val(loader[l].res)
                uuid == Val(loader[l].deal).uuid
            IN  /\ res.success
                /\ res.already_exists <=> UniqueViolation(loader[l].before, uuid)
                /\ Cardinality(get_by_uuid(uuid)) = 1
    /\ firstRunRows # None => deals = Val(firstRunRows)

\* A second run over one staged file reports it as already existing.
C1_Witness ==
    /\ fileset = {1}
    /\ loader[1].runs = 1
    /\ loader[1].pc = "report"
    /\ ~loader[1].dry
    /\ Val(loader[1].res).success
    /\ Val(loader[1].res).already_exists
    /\ firstRunRows # None
    /\ Cardinality(deals) = 1

\* C2: when the insert was rejected for a uuid already in the table, the load
\* reports success, already existing, under the id of the row with that uuid,
\* and the table is as it was before the load.
C2_DuplicateReportsExisting ==
    \A l \in Loaders :
        (loader[l].pc = "report" /\ loader[l].rejected) =>
            LET res == Val(loader[l].res)
                deal == Val(loader[l].deal)
            IN  /\ res.success
                /\ res.already_exists
                /\ \E r \in deals : r.uuid = deal.uuid /\ res.deal_id = r.id
                /\ deals = loader[l].before

\* A record staged with another price than the row of its identity holds was
\* rejected and reported; the row keeps its price.
C2_Witness ==
    /\ loader[1].pc = "report"
    /\ loader[1].rejected
    /\ Val(loader[1].res).deal_id = Some(1)
    /\ Val(loader[1].deal).sale_price = Some(399)
    /\ \E r \in deals : r.uuid = Val(loader[1].deal).uuid /\ r.sale_price = Some(499)

\* A staged document that breaks a type or range rule of the Deal shape.
BadShape(doc) ==
    \/ doc.store_id = None
    \/ doc.product_name = None
    \/ doc.valid_from = None
    \/ doc.valid_to = None
    \/ \E v \in doc.valid_from \cup doc.valid_to : ~IsIsoDate(v)
    \/ \E f \in doc.valid_from, t \in doc.valid_to :
          IsIsoDate(f) /\ IsIsoDate(t) /\ ~DateLE(fromisoformat(f), fromisoformat(t))
    \/ \E n \in doc.product_name : Strip(n) = <<>>
    \/ \E p \in DecimalField(doc.regular_price) \cup DecimalField(doc.sale_price) : p < 0
    \/ \E r \in DecimalField(doc.regular_price), p \in DecimalField(doc.sale_price) : p > r
    \/ \E d \in DecimalField(doc.discount_percentage) : d < 0 \/ d >= 10000

\* C5: a staged record that fails a type or range check of the Deal shape ends
\* in failed, and nothing is written to the store for it.
C5_InvalidRecordFails ==
    \A l \in Loaders :
        (loader[l].pc = "report" /\ BadShape(DocAt(l))) =>
            /\ ~Val(loader[l].res).success
            /\ deals = loader[l].before

\* C6: a failed record changes no row, the rows that earlier records of the
\* run committed stay in the table, and the run goes on to process every file.
C6_FailureIsolated ==
    \A l \in Loaders :
        /\ (loader[l].pc = "report" /\ ~Val(loader[l].res).success) =>
              deals = loader[l].before
        /\ \A i \in 1..Len(loader[l].log) :
              loader[l].log[i].deal_id # None =>
                 \E r \in deals : /\ r.id = loader[l].log[i].deal_id
                                  /\ r.uuid = loader[l].log[i].uuid
        /\ (loader[l].pc = "idle" /\ loader[l].summary # None) =>
              Len(loader[l].log) = Len(JsonFiles)

\* A run of three files ended: new, failed, new; both rows are in the table.
C6_Witness ==
    /\ loader[1].pc = "idle"
    /\ ~loader[1].dry
    /\ Len(loader[1].log) = 3
    /\ loader[1].log[1].success /\ loader[1].log[1].deal_id # None
    /\ ~loader[1].log[2].success
    /\ loader[1].log[3].success /\ ~loader[1].log[3].already_exists
    /\ Cardinality(deals) = 2

\* The loaders that write to the store.
Writing == {l \in Loaders : ~loader[l].dry}

\* The reports of a freshly inserted row of identity uuid.
NewReports(uuid) ==
    {p \in Writing \X (1..Len(StagedFiles)) :
        /\ p[2] <= Len(loader[p[1]].log)
        /\ loader[p[1]].log[p[2]].uuid = uuid
        /\ loader[p[1]].log[p[2]].success
        /\ ~loader[p[1]].log[p[2]].already_exists}

\* C3: when two loader runs load records of one identity at once, every report
\* for it is a success, the store holds one row of it, at most one report is
\* "new", and when the runs have ended exactly one is.
C3_RacingLoads ==
    \A l \in Writing : \A i \in 1..Len(loader[l].log) :
        LET r == loader[l].log[i]
        IN  r.uuid # None =>
               /\ r.success
               /\ Cardinality(get_by_uuid(r.uuid)) = 1
               /\ Cardinality(NewReports(r.uuid)) <= 1
               /\ (\A k \in Writing : loader[k].pc = "idle") =>
                     Cardinality(NewReports(r.uuid)) = 1

\* Loader 1 began its record when the store held no row, lost the race to
\* loader 2, which reported the row as new, and reports it as existing.
C3_Witness ==
    /\ loader[1].pc = "report"
    /\ loader[1].before = {}
    /\ loader[1].rejected
    /\ Val(loader[1].res).success /\ Val(loader[1].res).already_exists
    /\ ~loader[2].dry
    /\ Len(loader[2].log) = 1
    /\ loader[2].log[1].success /\ ~loader[2].log[1].already_exists
    /\ loader[2].log[1].uuid = Val(loader[1].res).uuid

\* The state of the record a loader is processing, in the terms of the loader's
\* state machine.
StageOf(ld) ==
    IF ld.pc = "load" THEN "pending"
    ELSE IF ld.pc \in {"create", "fetch", "lookup"} THEN "validated"
    ELSE IF ld.pc = "report"
    THEN IF ~Val(ld.res).success THEN "failed"
         ELSE IF Val(ld.res).already_exists THEN "persisted-duplicate"
         ELSE "persisted-new"
    ELSE IF ld.pc = "aborted" THEN "aborted"
    ELSE "none"

Terminal == {"persisted-new", "persisted-duplicate", "failed"}

\* How far the processing of the current record has come.
Rank(ld) ==
    IF ld.pc = "load" THEN 0
    ELSE IF ld.pc = "create" THEN 1
    ELSE IF ld.pc \in {"fetch", "lookup"} THEN 2
    ELSE 3

\* The moves of a record: validated from pending (a dry run stops there and
\* reports success, a validation error is failed), then one terminal outcome,
\* then the next record or the end of the run.  Every move advances.
StageMove(old, new) ==
    \/ old = new
    \/ StageOf(old) = "none" /\ StageOf(new) \in {"pending", "none"}
    \/ StageOf(old) = "pending" /\ StageOf(new) = "validated" /\ new.validated
    \/ StageOf(old) = "pending" /\ StageOf(new) = "failed" /\ ~new.validated
    \/ StageOf(old) = "pending" /\ StageOf(new) = "persisted-new" /\ new.validated /\ new.dry
    \/ /\ StageOf(old) = "validated"
       /\ StageOf(new) \in Terminal \cup {"validated"}
       /\ new.validated
       /\ Rank(new) > Rank(old)
    \/ StageOf(old) \in Terminal /\ StageOf(new) \in {"pending", "none"}

\* C4: every record goes from pending through validation to one terminal
\* outcome; its processing always ends with one (while a record is in
\* process its loader has a step to take, and every step advances it); and no
\* exception leaves the loop of load_directory.
C4_RecordLifecycle ==
    /\ [](\A l \in Loaders :
            /\ loader[l].pc # "aborted"
            /\ loader[l].pc \in {"load", "create", "fetch", "lookup", "report"} =>
                  ENABLED RecordStep(l))
    /\ [][\A l \in Loaders : StageMove(loader[l], loader'[l])]_vars

\* A record failed validation with more files to come.
C4_Witness ==
    /\ loader[1].pc = "report"
    /\ Val(loader[1].res).error = Some("ValidationError")
    /\ loader[1].idx < Len(JsonFiles)

\* C7: no deal row refers to a store or a category that does not exist.
C7_NoDanglingReference ==
    \A r \in deals :
        /\ \E st \in refs.store : st.id = r.store_id
        /\ \A cat \in r.category_id : \E c \in refs.category : c.id = cat

(***************************************************************************)
(* Properties of get-or-create                                             *)
(***************************************************************************)

NormKey(a) == <<Lower(Strip(a.product_name)), a.store_id, a.valid_from, a.valid_to>>

\* C9: the identifier has 36 characters, and two calls whose product names are
\* equal after strip().lower() and whose other arguments are equal return the
\* same identifier.
C9_SameKeySameUuid ==
    \A i \in DOMAIN uout, j \in DOMAIN uout :
        (uout[i] # None /\ uout[j] # None) =>
            /\ Len(Val(uout[i])) = 36
            /\ NormKey(uin[i]) = NormKey(uin[j]) => uout[i] = uout[j]

\* " A" and "a" were given the same identifier.
C9_Witness ==
    /\ DOMAIN uout = {1, 2}
    /\ uout[1] # None /\ uout[2] # None
    /\ uin[1].product_name = <<" ", "A">>
    /\ uin[2].product_name = <<"a">>
    /\ uin[1].store_id = uin[2].store_id
    /\ uin[1].valid_from = uin[2].valid_from
    /\ uin[1].valid_to = uin[2].valid_to
    /\ uout[1] = uout[2]

\* C10: two calls that differ in the normalized name, the store, valid_from or
\* valid_to return different identifiers.
C10_DifferentKeyDifferentUuid ==
    \A i \in DOMAIN uout, j \in DOMAIN uout :
        (uout[i] # None /\ uout[j] # None /\ NormKey(uin[i]) # NormKey(uin[j])) =>
            uout[i] # uout[j]

\* Two calls that differ in the store alone returned different identifiers.
C10_Witness ==
    /\ DOMAIN uout = {1, 2}
    /\ uout[1] # None /\ uout[2] # None
    /\ uin[1].product_name = uin[2].product_name
    /\ uin[1].store_id # uin[2].store_id
    /\ uin[1].valid_from = uin[2].valid_from
    /\ uin[1].valid_to = uin[2].valid_to
    /\ uout[1] # uout[2]

(***************************************************************************)
(* Properties of the discount calculator                                   *)
(***************************************************************************)

\* Whether d hundredths of a percent is the quotient (regular - sale) / regular
\* * 100 rounded to two decimal places: no hundredth lies nearer to it.
IsRounded(d, regular, sale) ==
    LET exact == (regular - sale) * 10000
        diff == d * regular - exact
    IN  2 * (IF diff < 0 THEN 0 - diff ELSE diff) <= regular

\* C11 as stated: calculate_discount returns absent exactly when an input is
\* absent, regular <= 0 or sale >= regular, and the rounded percentage for
\* every other pair.
C11_AbsentExactlyWhen ==
    calc.pc = "return" =>
        LET r == calc.regular_price
            s == calc.sale_price
        IN  IF r = None \/ s = None \/ Val(r) <= 0 \/ Val(s) >= Val(r)
            THEN calc.ret = None
            ELSE calc.ret # None /\ IsRounded(Val(calc.ret), Val(r), Val(s))

\* C11, amended: calculate_discount returns absent exactly when an input is
\* absent or zero, regular <= 0 or sale >= regular; for every other pair it
\* returns ((regular - sale) / regular) * 100 rounded to 2 decimal places
\* (16.69 for 5.99 and 4.99).
C11_AbsentOrRounded ==
    calc.pc = "return" =>
        LET r == calc.regular_price
            s == calc.sale_price
        IN  /\ IF r = None \/ s = None \/ s = Some(0) \/ Val(r) <= 0 \/ Val(s) >= Val(r)
               THEN calc.ret = None
               ELSE calc.ret # None /\ IsRounded(Val(calc.ret), Val(r), Val(s))
            /\ (r = Some(599) /\ s = Some(499)) => calc.ret = Some(1669)

\* The call for 5.99 and 4.99 returned 16.69.
C11_Witness ==
    /\ calc.pc = "return"
    /\ calc.regular_price = Some(599)
    /\ calc.sale_price = Some(499)
    /\ calc.ret = Some(1669)

\* C12: a value calculate_discount returns for 0 <= sale < regular lies
\* strictly between 0 and 100.
C12_StrictlyBetween ==
    (/\ calc.pc = "return"
     /\ calc.ret # None
     /\ calc.regular_price # None /\ calc.sale_price # None
     /\ 0 <= Val(calc.sale_price)
     /\ Val(calc.sale_price) < Val(calc.regular_price)) =>
        (0 < Val(calc.ret) /\ Val(calc.ret) < 10000)

\* Whether d is the discount of a pair of prices: absent when a price is
\* absent, regular <= 0 or sale >= regular, the rounded percentage otherwise.
ConsistentDiscount(d, regular_price, sale_price) ==
    IF \/ regular_price = None
       \/ sale_price = None
       \/ Val(regular_price) <= 0
       \/ Val(sale_price) >= Val(regular_price)
    THEN d = None
    ELSE /\ d # None
         /\ IsRounded(Val(d), Val(regular_price), Val(sale_price))
         /\ 0 <= Val(d) /\ Val(d) < 10000

\* C13: the discount_percentage of every deal a scraper emits and of every row
\* GroceryService.create inserts is absent or the discount of the deal's own
\* regular_price and sale_price (absent when sale_price >= regular_price,
\* otherwise in [0, 100)), the value create computes included.
C13_DiscountConsistent ==
    /\ \A r \in deals :
          \/ r.discount_percentage = None
          \/ ConsistentDiscount(r.discount_percentage, r.regular_price, r.sale_price)
    /\ scr # None =>
          \A d \in Val(scr).deal :
              \/ d.discount_percentage = None
              \/ ConsistentDiscount(d.discount_percentage, d.regular_price, d.sale_price)

(***************************************************************************)
(* Properties of the price-role resolution                                 *)
(***************************************************************************)

\* The scraper's locals when it has an item (the idle ones otherwise).
Scr ==
    IF scr # None THEN Val(scr)
    ELSE [pc |-> "none", source |-> "hmart",
          item |-> [strike |-> <<>>, price |-> <<>>, extra |-> <<>>, was |-> None],
          regular_price |-> None, sale_price |-> None, deal |-> None]

\* C14: a deal a scraper emits has sale_price <= regular_price when both are
\* present; the final pass swaps a pair with sale > regular and discards the
\* regular price of an equal pair; and no later step changes either price (the
\* deal carries the prices the final pass left).
C14_SaleNotAboveRegular ==
    /\ [](\A d \in Scr.deal :
             /\ d.regular_price = Scr.regular_price
             /\ d.sale_price = Scr.sale_price
             /\ (d.regular_price # None /\ d.sale_price # None) =>
                    Val(d.sale_price) <= Val(d.regular_price))
    /\ [][Scr.pc = "final_pass" /\ Scr.regular_price # None /\ Scr.sale_price # None =>
             LET r == Val(Scr.regular_price)
                 sl == Val(Scr.sale_price)
             IN  /\ sl > r => (Scr'.regular_price = Some(sl) /\ Scr'.sale_price = Some(r))
                 /\ sl = r => (Scr'.regular_price = None /\ Scr'.sale_price = Some(sl))
                 /\ sl < r => (Scr'.regular_price = Some(r) /\ Scr'.sale_price = Some(sl))]_vars
    /\ [][Scr.pc \in {"emit", "done"} =>
             /\ Scr'.regular_price = Scr.regular_price
             /\ Scr'.sale_price = Scr.sale_price]_vars

\* A strikethrough 4.99 and a sale-marked 5.99 were resolved as regular 4.99,
\* sale 5.99, swapped by the final pass and emitted as regular 5.99, sale 4.99.
C14_Witness ==
    /\ Scr.pc = "done"
    /\ Scr.item.strike = << <<"$", "4", ".", "9", "9">> >>
    /\ Scr.item.price = << [text |-> <<"$", "5", ".", "9", "9">>, is_regular |-> FALSE,
                            is_sale |-> TRUE] >>
    /\ Scr.deal # None
    /\ Val(Scr.deal).regular_price = Some(599)
    /\ Val(Scr.deal).sale_price = Some(499)

\* An item with no strikethrough fragment and two price elements, both
\* ambiguous.
TwoAmbiguous(item) ==
    /\ item.strike = <<>>
    /\ Len(item.price) = 2
    /\ \A i \in 1..2 : ~item.price[i].is_regular /\ ~item.price[i].is_sale

\* C15: two ambiguous fragments of values a < b resolve to regular = b and
\* sale = a in either scan order, right after the scan and in the end.
C15_LargerIsRegular ==
    (/\ TwoAmbiguous(Scr.item)
     /\ Scr.pc \in {"rescan", "fallback", "last_resort", "original_pattern",
                    "final_pass", "emit", "done"}) =>
        LET v1 == Val(parse_price(Scr.source, Scr.item.price[1].text))
            v2 == Val(parse_price(Scr.source, Scr.item.price[2].text))
        IN  v1 # v2 =>
               /\ Scr.regular_price = Some(IF v1 > v2 THEN v1 ELSE v2)
               /\ Scr.sale_price = Some(IF v1 > v2 THEN v2 ELSE v1)

\* The larger fragment came first in the scan: 5.99 then 4.99.
C15_Witness ==
    /\ TwoAmbiguous(Scr.item)
    /\ Scr.item.price[1].text = <<"$", "5", ".", "9", "9">>
    /\ Scr.item.price[2].text = <<"$", "4", ".", "9", "9">>
    /\ Scr.pc = "done"
    /\ Scr.regular_price = Some(599)
    /\ Scr.sale_price = Some(499)

\* The price a numeral of the Stew Leonard's source stands for: a bare integer
\* of 100 or more is in cents, anything else in dollars.
CentsCorrected(g) ==
    IF ~HasDot(g) /\ DecimalCents(g) >= 10000 THEN DecimalCents(g) \div 100
    ELSE DecimalCents(g)

\* C16: in the Stew Leonard's scraper every price assigned in any step is the
\* value of a numeral of the item, divided by 100 when the numeral is a bare
\* integer >= 100 and never when it has a decimal point.
C16_CentsFormEverywhere ==
    Scr.source = "stew_leonards" =>
        \A v \in Scr.regular_price \cup Scr.sale_price :
            LET ns == FindNumerals(AllText(Scr.item), 1)
            IN  \E i \in 1..Len(ns) : v = CentsCorrected(ns[i])

(***************************************************************************)
(* Properties of the validity window and of the deduplication              *)
(***************************************************************************)

\* 2025-01-05, ordinal 739256, is a Sunday.
IsSunday(n) == (n - 739256) % 7 = 0

\* C17: on every day of the week the default window starts on the most recent
\* Sunday on or before today and ends six days later, a Saturday, so that
\* valid_from <= today <= valid_to.
C17_CurrentWeek ==
    \A w \in week :
        w.pc = "done" =>
            /\ IsSunday(w.valid_from)
            /\ w.valid_to = w.valid_from + 6
            /\ IsSunday(w.valid_to + 1)
            /\ w.valid_from <= w.today
            /\ w.today <= w.valid_to

\* The places of all_deals that hold the first deal of their key.
FirstSeen(all_deals) ==
    {i \in 1..Len(all_deals) :
        \A j \in 1..(i - 1) :
            \/ Lower(Strip(all_deals[j].product_name)) # Lower(Strip(all_deals[i].product_name))
            \/ all_deals[j].store_id # all_deals[i].store_id}

\* C18: the list scrape_deals returns holds no two deals of one key (product
\* name lowercased and trimmed, store_id); it is the first deal of every key of
\* the input, in input order.
C18_FirstOfEachKey ==
    \A b \in batch :
        b.pc = "done" =>
            LET kept == SortedSeq(FirstSeen(b.all_deals))
            IN  /\ Len(b.unique_deals) = Len(kept)
                /\ \A k \in 1..Len(kept) : b.unique_deals[k] = b.all_deals[kept[k]]
                /\ \A k \in 1..Len(b.unique_deals), m \in 1..Len(b.unique_deals) :
                      (/\ Lower(Strip(b.unique_deals[k].product_name))
                            = Lower(Strip(b.unique_deals[m].product_name))
                       /\ b.unique_deals[k].store_id = b.unique_deals[m].store_id) => k = m

\* "a" at 4.99, "A" at 5.99 and "b" came in; "a" at 4.99 and "b" were returned.
C18_Witness ==
    /\ batch # None
    /\ Val(batch).pc = "done"
    /\ Len(Val(batch).all_deals) = 3
    /\ Val(batch).all_deals[1] = [product_name |-> <<"a">>, store_id |-> 1, sale_price |-> 499]
    /\ Val(batch).all_deals[2] = [product_name |-> <<"A">>, store_id |-> 1, sale_price |-> 599]
    /\ Val(batch).all_deals[3].product_name = <<"b">>
    /\ Val(batch).unique_deals = <<Val(batch).all_deals[1], Val(batch).all_deals[3]>>

(***************************************************************************)
(* Properties of the staging store                                         *)
(***************************************************************************)

St == Val(stage)

\* The identity of a deal: its uuid, or the one generated from its fields.
IdentityOf(deal) ==
    IF TruthyStr(deal.uuid) THEN Val(deal.uuid)
    ELSE generate_grocery_deal_uuid(deal.product_name, deal.store_id, deal.valid_from,
                                    deal.valid_to)

\* The path <bucket>/<identity>.json.
IdentityPath(deal, subdirectory) ==
    [dir |-> OutputDir(subdirectory),
     name |-> IdentityOf(deal) \o <<".", "j", "s", "o", "n">>]

\* C19: save_deal_json writes the record to <bucket>/<identity>.json; a save of
\* a deal whose identity the bucket already holds returns the same path, adds
\* no file and replaces the content; so a bucket never holds two files of one
\* identity.
C19_OneFilePerIdentity ==
    /\ [](stage # None =>
            /\ \A q1 \in DOMAIN St.files, q2 \in DOMAIN St.files :
                  (q1.dir = q2.dir /\ St.files[q1].uuid = St.files[q2].uuid) => q1 = q2
            /\ St.saved # None =>
                  /\ Val(St.saved).path = IdentityPath(Val(St.saved).deal,
                                                       Val(St.saved).subdirectory)
                  /\ Val(St.saved).path \in DOMAIN St.files
                  /\ St.files[Val(St.saved).path] = SaveDoc(Val(St.saved).deal))
    /\ [][\A deal \in StoreDeals, subdirectory \in Subdirectories :
             (/\ SaveDealJson(deal, subdirectory)
              /\ \E q \in DOMAIN St.files :
                    q.dir = OutputDir(subdirectory)
                    /\ St.files[q].uuid = Some(IdentityOf(deal)))
             => /\ DOMAIN Val(stage').files = DOMAIN St.files
                /\ Val(Val(stage').saved).path = IdentityPath(deal, subdirectory)
                /\ Val(stage').files[IdentityPath(deal, subdirectory)] = SaveDoc(deal)
                /\ \A q \in DOMAIN St.files :
                      q # IdentityPath(deal, subdirectory)
                        => Val(stage').files[q] = St.files[q]]_vars

\* "a" with every optional field was saved, then "A" with none into the same
\* bucket: one file, holding the second document.
C19_Witness ==
    /\ stage # None
    /\ St.n = 2
    /\ Cardinality(DOMAIN St.files) = 1
    /\ St.saved # None
    /\ Val(St.saved).deal.product_name = <<"A">>
    /\ Val(St.saved).prev # None
    /\ Val(Val(St.saved).prev).product_name = Some(<<"a">>)
    /\ Val(Val(St.saved).prev).sale_price = Some(DecimalStr(499))
    /\ St.files[Val(St.saved).path].product_name = Some(<<"A">>)
    /\ St.files[Val(St.saved).path].sale_price = None

\* The file that the last save wrote has been read back.
ReadBack ==
    /\ stage # None
    /\ St.saved # None
    /\ St.loaded # None
    /\ Val(St.loaded).path = Val(St.saved).path

\* C20 as stated: the deal read back from the file that save_deal_json wrote
\* equals the deal that was saved.
C20_RoundTripEqual == ReadBack => Val(St.loaded).deal = Val(St.saved).deal

\* C20: the deal read back equals the deal that was saved in every field but
\* uuid; its uuid is the saved deal's, or, when the saved deal had none, the
\* identity generated from its fields.
C20_RoundTripUpToUuid ==
    ReadBack =>
        Val(St.loaded).deal =
            [Val(St.saved).deal EXCEPT !.uuid = Some(IdentityOf(Val(St.saved).deal))]

\* A deal with no optional field and no uuid was saved and read back.
C20_Witness ==
    /\ ReadBack
    /\ Val(St.saved).deal.uuid = None
    /\ Val(St.saved).deal.category_id = None
    /\ Val(St.saved).deal.regular_price = None
    /\ Val(St.saved).deal.sale_price = None
    /\ Val(St.saved).deal.discount_percentage = None
    /\ Val(St.loaded).deal.uuid # None
    /\ Val(St.loaded).deal.sale_price = None

(***************************************************************************)
(* Properties of the extraction run                                        *)
(***************************************************************************)

Run == Val(run)

\* The candidate yields a deal: a name was resolved, parsing did not raise and
\* a sale price was found.
Yields(source, c) ==
    /\ c.name # None
    /\ ~c.raises
    /\ Truthy(ResolvePrices(source, c.item).sale_price)

\* C21: a candidate with no product name or no sale price produces no deal, a
\* candidate whose parsing raises is skipped alone: the deals are those of
\* exactly the other candidates handled so far, in order, and the loop ends
\* only after the last candidate.
C21_OnlyThatCandidateSkipped ==
    run # None =>
        /\ Run.pc # "scrape" => Run.idx = Len(Run.product_items) + 1
        /\ Len(Run.origin) = Len(Run.deals)
        /\ \A i \in 1..Len(Run.product_items) :
              (\E k \in 1..Len(Run.origin) : Run.origin[k] = i)
                <=> (i < Run.idx /\ Yields(Run.source, Run.product_items[i]))
        /\ \A k \in 1..Len(Run.origin) :
              /\ Run.deals[k].product_name = Val(Run.product_items[Run.origin[k]].name)
              /\ k > 1 => Run.origin[k - 1] < Run.origin[k]

\* "b" came after a candidate that raised and one with no sale price, and its
\* deal is there.
C21_Witness ==
    /\ run # None
    /\ Run.pc = "save"
    /\ Len(Run.product_items) = 3
    /\ Run.product_items[1].raises
    /\ Run.product_items[2].name # None
    /\ ~Truthy(ResolvePrices(Run.source, Run.product_items[2].item).sale_price)
    /\ Run.product_items[3].name = Some(<<"b">>)
    /\ Len(Run.deals) = 1
    /\ Run.deals[1].product_name = <<"b">>

\* C24: no run stages two deals with the same key (lowercased-trimmed
\* product_name, store_id).
C24_NoKeyStagedTwice ==
    run # None =>
        \A k \in 1..Len(Run.saved_paths), m \in 1..Len(Run.saved_paths) :
            DedupKey(Run.to_save[k]) = DedupKey(Run.to_save[m]) => k = m

(***************************************************************************)
(* Properties of the load run's summary                                    *)
(***************************************************************************)

\* The files a loader run has counted.
CountedFiles(l) == loader[l].successful + loader[l].already_exists + loader[l].failed

\* Within a run the three counters add up to the files handled so far, and
\* each counted file raises exactly one of them by one.
CountsOneEach ==
    /\ [](\A l \in Loaders :
            /\ loader[l].pc \in {"load", "create", "fetch", "lookup", "report"} =>
                  CountedFiles(l) = loader[l].idx - 1
            /\ loader[l].summary # None =>
                  /\ Val(loader[l].summary).total = Len(JsonFiles)
                  /\ Val(loader[l].summary).successful + Val(loader[l].summary).already_exists
                       + Val(loader[l].summary).failed = Val(loader[l].summary).total)
    /\ [][\A l \in Loaders :
             ReportResult(l) =>
                /\ CountedFiles(l)' = CountedFiles(l) + 1
                /\ loader'[l].successful >= loader[l].successful
                /\ loader'[l].already_exists >= loader[l].already_exists
                /\ loader'[l].failed >= loader[l].failed]_vars

\* C22 as stated: every load run ends with a summary, and the counters add up.
C22_EveryRunSummarised ==
    /\ CountsOneEach
    /\ [](\A l \in Loaders :
            (loader[l].pc = "idle" /\ loader[l].runs > 0) => loader[l].summary # None)

\* C22: every load run that finds a staged file ends with a summary in which
\* succeeded + already-present + failed = total, each file raising exactly one
\* counter; a run that finds no file ends with no summary.
C22_SummaryAddsUp ==
    /\ CountsOneEach
    /\ [](\A l \in Loaders :
            (loader[l].pc = "idle" /\ loader[l].runs > 0) =>
               (loader[l].summary # None <=> JsonFiles # <<>>))

\* A second run over three files ended: two already present, one failed.
C22_Witness ==
    /\ loader[1].pc = "idle"
    /\ loader[1].runs = 2
    /\ loader[1].summary # None
    /\ Val(loader[1].summary).total = 3
    /\ Val(loader[1].summary).already_exists = 2
    /\ Val(loader[1].summary).failed = 1
    /\ Val(loader[1].summary).successful = 0

\* The loader has had a record fail because the store could not be reached.
SawOutage(l) ==
    \E i \in 1..Len(loader[l].log) : loader[l].log[i].error = Some("ConnectionError")

\* C23: when the store is unreachable for the whole run, the run aborts at the
\* first record that meets the error: no further record is taken up and
\* nothing more is counted.
C23_OutageAbortsRun ==
    \A l \in Loaders :
        (~reachable /\ SawOutage(l)) =>
            /\ loader[l].pc \notin {"load", "create", "report"}
            /\ Len(loader[l].log) = 1

(***************************************************************************)
(* Properties of the unit extraction                                       *)
(***************************************************************************)

Ext == Val(ext)

\* The text the patterns are matched against.
UnitText == Lower(Ext.product_name \o <<" ">> \o Ext.description)

\* g is a numeral: digits, then at most one "." with digits or nothing after.
IsNumeralText(g) ==
    /\ g # <<>>
    /\ IsDigit(g[1])
    /\ \A x \in 1..Len(g) : IsDigit(g[x]) \/ g[x] = "."
    /\ Cardinality({x \in 1..Len(g) : g[x] = "."}) <= 1

\* The numeral text[i..j], white space and the unit token u stand one after the
\* other, u ends at a word boundary, and the numeral is as long as it can be.
MatchesFrom(text, u, i, j) ==
    /\ IsNumeralText(SubSeq(text, i, j))
    /\ \E k \in (j + 1)..(Len(text) + 1) :
          /\ \A x \in (j + 1)..(k - 1) : text[x] = " "
          /\ k + Len(u) - 1 <= Len(text)
          /\ \A x \in 1..Len(u) : text[k + x - 1] = u[x]
          /\ LET last == k + Len(u) - 1
                 after == last + 1 <= Len(text) /\ IsWordChar(text[last + 1])
             IN  IsWordChar(text[last]) # after

Matches(text, u) == \E i \in 1..Len(text), j \in 1..Len(text) : i <= j /\ MatchesFrom(text, u, i, j)

\* C26: the unit returned is that of the first entry of the vocabulary, in the
\* order of the list, whose pattern matches the lowercased text, with the
\* number of its leftmost match as quantity; with no matching entry both are
\* absent; unit is present exactly when quantity is.
C26_FirstEntryInListOrder ==
    (ext # None /\ Ext.pc = "return") =>
        LET units == Units(Ext.source)
            hits == {n \in 1..Len(units) : Matches(UnitText, units[n])}
        IN  /\ (Ext.unit = None) <=> (Ext.quantity = None)
            /\ hits = {} => Ext.unit = None
            /\ hits # {} =>
                  LET n == CHOOSE m \in hits : \A o \in hits : m <= o
                      u == units[n]
                      i == CHOOSE a \in 1..Len(UnitText) :
                              /\ \E j \in a..Len(UnitText) : MatchesFrom(UnitText, u, a, j)
                              /\ \A b \in 1..(a - 1) :
                                    ~\E j \in b..Len(UnitText) : MatchesFrom(UnitText, u, b, j)
                      j == CHOOSE c \in i..Len(UnitText) : MatchesFrom(UnitText, u, i, c)
                  IN  /\ Ext.unit = Some(IF u[Len(u)] = "." THEN SubSeq(u, 1, Len(u) - 1) ELSE u)
                      /\ Ext.quantity = Some(DecimalCents(SubSeq(UnitText, i, j)))

\* "3 ct" with the description "12 oz": oz stands before ct in the list and
\* after it in the text, and wins.
C26_Witness ==
    /\ ext # None
    /\ Ext.pc = "return"
    /\ Ext.product_name = <<"3", " ", "c", "t">>
    /\ Ext.description = <<"1", "2", " ", "o", "z">>
    /\ Ext.unit = Some(<<"o", "z">>)
    /\ Ext.quantity = Some(1200)

(***************************************************************************)
(* Properties of the rescan and of the per-fragment scan                   *)
(***************************************************************************)

\* The prices the strikethrough step and the per-fragment scan leave.
AfterScan ==
    ScanPriceElems(Scr.source, Scr.item.price,
                   [regular_price |-> ScanStrikethrough(Scr.source, Scr.item.strike, None),
                    sale_price |-> None])

\* The numerals of the item's full text that are strictly below the amount.
NumeralsBelow(amount) ==
    LET ns == FindNumerals(AllText(Scr.item), 1)
    IN  SelectSeq([i \in 1..Len(ns) |-> DecimalCents(ns[i])], LAMBDA v : v < amount)

\* C25: when the earlier steps leave a regular price and no sale price, the
\* candidate ends with a deal whose sale price is the first numeral of the
\* item's text strictly below the regular price; with no such numeral it ends
\* with no sale price and no deal.
C25_RescanFirstLower ==
    (/\ Scr.pc = "done"
     /\ AfterScan.regular_price # None
     /\ AfterScan.sale_price = None) =>
        LET below == NumeralsBelow(Val(AfterScan.regular_price))
        IN  IF below # <<>>
            THEN /\ Scr.deal # None
                 /\ Val(Scr.deal).sale_price = Some(below[1])
            ELSE /\ Scr.sale_price = None
                 /\ Scr.deal = None

\* C27: after the per-fragment scan the sale price, when set, is the price of
\* a fragment that does not match the regular-leaning vocabulary.
C27_RegularLeaningNeverSale ==
    (Scr.pc = "rescan" /\ Scr.sale_price # None) =>
        \E k \in 1..Len(Scr.item.price) :
            /\ ~Scr.item.price[k].is_regular
            /\ parse_price(Scr.source, Scr.item.price[k].text) = Scr.sale_price

(***************************************************************************)
(* Properties of the staged identity                                       *)
(***************************************************************************)

\* C28: in every staged file the uuid, and the stem of the file's name, is
\* generate_grocery_deal_uuid of the product_name, store_id, valid_from and
\* valid_to stored in that file.
C28_StagedUuidMatchesFields ==
    stage # None =>
        \A q \in DOMAIN St.files :
            LET data == St.files[q]
                uuid == generate_grocery_deal_uuid(Val(data.product_name), Val(data.store_id),
                                                   fromisoformat(Val(data.valid_from)),
                                                   fromisoformat(Val(data.valid_to)))
            IN  /\ data.uuid = Some(uuid)
                /\ q.name = uuid \o <<".", "j", "s", "o", "n">>

\* C29: when a load is reported as a success, new or already existing, the row
\* of that identity holds the prices of the staged record, and its discount
\* when the record carries one.
C29_RowHoldsStagedValues ==
    \A l \in Writing :
        (loader[l].pc = "report" /\ Val(loader[l].res).success) =>
            LET staged == ParsedDeal(DocAt(l))
                rows == get_by_uuid(Val(loader[l].res).uuid)
            IN  /\ rows # {}
                /\ \A r \in rows :
                      /\ r.regular_price = staged.regular_price
                      /\ r.sale_price = staged.sale_price
                      /\ staged.discount_percentage # None =>
                            r.discount_percentage = staged.discount_percentage


(***************************************************************************)
(* Properties of store consolidation                                       *)
(***************************************************************************)

StoreExists(table, id) == \E s \in table : s.id = id

\* What the consolidation promises of a step that returned True without
\* dry_run: keep remains, delete is gone, the deals of delete are now deals of
\* keep, and there are as many deals as before.
Consolidated(keep, delete) ==
    /\ StoreExists(refs'.store, keep)
    /\ ~StoreExists(refs'.store, delete)
    /\ \A r \in deals : r.store_id = delete =>
           [r EXCEPT !.store_id = keep] \in deals'
    /\ \A r \in deals' : r.store_id # delete
    /\ Cardinality(deals') = Cardinality(deals)

\* C30: for every pair of existing store ids (keep, delete), a consolidation
\* without dry_run that returns True leaves the store keep in place, removes
\* the store delete, moves every deal of delete to keep and keeps the number of
\* deals; a dry run leaves stores and deals unchanged.
C30_ConsolidationKeepsKeep ==
    [][\A keep \in StoreIds, delete \in StoreIds :
          (/\ StoreExists(refs.store, keep)
           /\ StoreExists(refs.store, delete))
          => /\ consolidate_stores(keep, delete, FALSE) => Consolidated(keep, delete)
             /\ consolidate_stores(keep, delete, TRUE) => UNCHANGED <<deals, refs>>]_vars

====
